---- MODULE Spec2Model ----
(***************************************************************************)
(* A model of the routing/dispatch core of uweb (src/uweb.go): route       *)
(* registration, pattern matching, method fallback, target invocation      *)
(* under recover(), result casting, the error-handler table and the write  *)
(* of the response to the http.ResponseWriter.                             *)
(*                                                                         *)
(* Strings that the code inspects character by character (request paths    *)
(* and regular expressions) are sequences of one-character strings.        *)
(* Strings that the code only copies and concatenates (bodies, messages,   *)
(* stack traces) are sequences of tokens, so that "the body contains msg"  *)
(* is membership of the token in the sequence.                             *)
(***************************************************************************)
EXTENDS Integers, Sequences, FiniteSets, TLC

VARIABLES
    routes,         \* App.router.routes: pattern -> route (re, targets)
    order,          \* history: the patterns in the order AddRoute first stored them
    errorHandlers,  \* App.errorHandlers: status code -> error handler
    debug,          \* Config.Debug
    nregs,          \* number of registration calls made so far (bounded)
    lastReg,        \* history: the last registration call and how it ended
    request,        \* history: the last request given to ServeHTTP, the depth at
                    \* which its target raises and the order in which the
                    \* ranges over the routes maps visit the keys
    selected,       \* history: the route FindTarget stopped at for that request
    invoked,        \* history: the callables run for that request, in order
    response,       \* what ServeHTTP wrote to the http.ResponseWriter
    escaped,        \* the panic value that left ServeHTTP, if any
    inflight        \* the requests being served concurrently, one goroutine
                    \* each: how far its ServeHTTP has come and its locals

vars == <<routes, order, errorHandlers, debug, nregs, lastReg,
          request, selected, invoked, response, escaped, inflight>>

-----------------------------------------------------------------------------
(* Bounds of the model *)

\* at most this many registration calls (Route/Get/.../Error) are explored
MaxRegs == 2
\* Abort and panic are raised at most this many helper calls below the target
MaxDepth == 1
\* the goroutine's stack has room for this many nested calls of cast
MaxCast == 3

-----------------------------------------------------------------------------
(* Generic helpers *)

EmptyMap == [x \in {} |-> x]

MapPut(f, k, v) == [x \in (DOMAIN f) \cup {k} |-> IF x = k THEN v ELSE f[x]]

Range(s) == {s[i] : i \in DOMAIN s}

Min(S) == CHOOSE x \in S : \A y \in S : x <= y

\* a local variable: v is computed once and F is the code that uses it
Bind(v, F(_)) == F(v)

\* every order in which a range over a Go map with key set S may visit the keys
Perms(S) == {s \in [1..Cardinality(S) -> S] : \A x \in S : \E i \in DOMAIN s : s[i] = x}

\* strings.ToUpper on the method spellings a request or a registration may carry
ToUpper(m) ==
    CASE m = "get" -> "GET"
      [] m = "head" -> "HEAD"
      [] m = "post" -> "POST"
      [] m = "any" -> "ANY"
      [] OTHER -> m

\* strconv.Itoa / fmt %d on a status code
Itoa(n) ==
    CASE n = 200 -> "200"
      [] n = 302 -> "302"
      [] n = 401 -> "401"
      [] n = 404 -> "404"
      [] n = 405 -> "405"
      [] n = 500 -> "500"
      [] n = 503 -> "503"
      [] n = 999 -> "999"
      [] OTHER -> "?"

-----------------------------------------------------------------------------
(* Regular expressions: the fragment of Go's regexp syntax the patterns use. *)
(* A pattern is an optional "^", literal characters with capture groups      *)
(* "(" ... ")" around some of them, and an optional "$".  A "*" with nothing *)
(* before it does not compile.                                               *)

\* regexp.Compile fails: "missing argument to repetition operator"
CompileFails(p) == Len(p) > 0 /\ p[1] = "*"

HasStart(p) == Len(p) > 0 /\ p[1] = "^"

HasEnd(p) == Len(p) > 0 /\ p[Len(p)] = "$"

ReBody(p) ==
    SubSeq(p, IF HasStart(p) THEN 2 ELSE 1, IF HasEnd(p) THEN Len(p) - 1 ELSE Len(p))

IsLiteral(c) == c \notin {"(", ")"}

Literals(p) == SelectSeq(ReBody(p), IsLiteral)

\* the capture groups of body b, left to right, as spans of the literal text
RECURSIVE GroupSpans(_, _, _, _)
GroupSpans(b, i, n, open) ==
    IF i > Len(b) THEN <<>>
    ELSE IF b[i] = "(" THEN GroupSpans(b, i + 1, n, n + 1)
    ELSE IF b[i] = ")" THEN <<[from |-> open, to |-> n]>> \o GroupSpans(b, i + 1, n, 0)
    ELSE GroupSpans(b, i + 1, n + 1, open)

\* the pattern matches s at byte offset i (0-based)
MatchAt(p, s, i) ==
    LET lit == Literals(p)
        n == Len(lit)
    IN  /\ i + n <= Len(s)
        /\ SubSeq(s, i + 1, i + n) = lit
        /\ HasStart(p) => i = 0
        /\ HasEnd(p) => i + n = Len(s)

MatchOffsets(p, s) == {i \in 0..Len(s) : MatchAt(p, s, i)}

\* Regexp.FindStringIndex: [start, end) of the leftmost match, <<>> for nil
FindStringIndex(p, s) ==
    IF MatchOffsets(p, s) = {} THEN <<>>
    ELSE LET i == Min(MatchOffsets(p, s))
         IN  <<i, i + Len(Literals(p))>>

\* Regexp.FindStringSubmatch: the match and its groups, <<>> for nil
FindStringSubmatch(p, s) ==
    IF MatchOffsets(p, s) = {} THEN <<>>
    ELSE LET i == Min(MatchOffsets(p, s))
             g == GroupSpans(ReBody(p), 1, 0, 0)
         IN  <<SubSeq(s, i + 1, i + Len(Literals(p)))>> \o
             [k \in 1..Len(g) |-> SubSeq(s, i + g[k].from, i + g[k].to)]

-----------------------------------------------------------------------------
(* Response, ErrorResponse, Context *)

\* "default" is DefaultApp, the App of the package-level functions
Apps == {"main", "sub", "default"}

TextHtml == "text/html; charset=utf-8"

\* NewResponse: status 200, Content-Type text/html, empty body
NewResponse ==
    [type |-> "Response", nil |-> FALSE, Code |-> 200, Content |-> <<>>,
     header |-> [ContentType |-> TextHtml, Location |-> <<>>, ContentLength |-> -1]]

\* NewError: an ErrorResponse whose embedded Response carries code and message
NewError(code, message) ==
    [type |-> "ErrorResponse",
     Response |-> [NewResponse EXCEPT !.Code = code, !.Content = message],
     Stack |-> <<>>,
     Message |-> message]

\* Variant of Merge that copies nothing: the status of an ErrorResponse is lost.
\* C6_AbortEndsTarget must fail under it.
Merge_CopiesNothing(r, resp) == r

\* Response.Merge copies the status code only
Merge(r, resp) == [r EXCEPT !.Code = resp.Code]

\* number of leading lines ErrorResponse.SetStack(true) removes from the trace
StackSkip == 6

RECURSIVE StripLines(_, _)
StripLines(s, k) ==
    IF k = 0 \/ s = <<>> THEN s ELSE StripLines(Tail(s), k - 1)

RECURSIVE FrameLines(_)
FrameLines(frames) ==
    IF frames = <<>> THEN <<>>
    ELSE <<Head(frames), "\t(source position)">> \o FrameLines(Tail(frames))

\* runtime/debug.Stack() inside the deferred function of findAndCall while the
\* panic raised below `frames` is being recovered: one header line, then two
\* lines per frame, innermost first
DebugStack(frames) ==
    <<"goroutine [running]:">> \o
    FrameLines(<<"runtime/debug.Stack", "uweb.(*ErrorResponse).SetStack",
                 "uweb.(*App).findAndCall.func1", "runtime.gopanic">>
               \o frames \o
               <<"uweb.(*App).findAndCall", "uweb.(*App).Handle",
                 "uweb.(*App).ServeHTTP">>)

\* Variant of SetStack that records no trace.  C8_PanicIs500 must fail under it.
SetStack_NoTrace(e, clean, stack) == e

\* ErrorResponse.SetStack(clean), given the text debug.Stack() returns
SetStack(e, clean, stack) ==
    [e EXCEPT !.Stack = IF clean THEN StripLines(stack, StackSkip) ELSE stack]

\* NewContext followed by ServeHTTP's ctx.Path = ctx.Path[1:]
NewContext(method, path) ==
    [Method |-> method, Path |-> path, Response |-> NewResponse]

-----------------------------------------------------------------------------
(* The Go functions registered as targets and error handlers.  A function   *)
(* is its parameter list and its body, a list of statements.                *)

StrVal(s) == [type |-> "string", v |-> s]

Return(vals) == [op |-> "return", code |-> 0, msg |-> <<>>, vals |-> vals]

CallAbort(code, msg) == [op |-> "abort", code |-> code, msg |-> msg, vals |-> <<>>]

CallPanic(v) == [op |-> "panic", code |-> 0, msg |-> <<>>, vals |-> <<v>>]

SetContent(c) == [op |-> "set", code |-> 0, msg |-> c, vals |-> <<>>]

Delegate == [op |-> "mount", code |-> 0, msg |-> <<>>, vals |-> <<>>]

\* ctx.Response.Header().Set("Content-Type", v)
SetType(v) == [op |-> "type", code |-> 0, msg |-> v, vals |-> <<>>]

\* ctx.Response.Code = code
SetCode(code) == [op |-> "code", code |-> code, msg |-> <<>>, vals |-> <<>>]

\* return prefix + args[idx[1]] + " " + args[idx[2]] + ..., args being the
\* function's string parameters (or its one collection of strings)
ReturnArgs(prefix, idx) == [op |-> "args", code |-> 0, msg |-> prefix, vals |-> idx]

\* return "message:" + r.Message + "stack:" + r.Stack, r being the
\* *ErrorResponse an error handler received
ReturnError == [op |-> "error", code |-> 0, msg |-> <<>>, vals |-> <<>>]

\* return ctx.Path
ReturnPath == [op |-> "path", code |-> 0, msg |-> <<>>, vals |-> <<>>]

\* Redirect(url)
CallRedirect(url) == [op |-> "redirect", code |-> 302, msg |-> url, vals |-> <<>>]

\* RedirectWithCode(url, code)
CallRedirectWithCode(url, code) ==
    [op |-> "redirectWithCode", code |-> code, msg |-> url, vals |-> <<>>]

Unreachable == Return(<<StrVal(<<"unreachable">>)>>)

\* the url the redirecting views pass: http://example.com/?a=1&b=2
ExampleUrl == <<"http://example.com/", "?a=1", "&", "b=2">>

\* the status code each func() { RedirectWithCode(url, code) } passes
RedirectCodes ==
    [name \in {"redirect0", "redirect200", "redirect300", "redirect301", "redirect303",
               "redirect304", "redirect305", "redirect306", "redirect307", "redirect308",
               "redirect309"} |->
        CASE name = "redirect0" -> 0
          [] name = "redirect200" -> 200
          [] name = "redirect300" -> 300
          [] name = "redirect301" -> 301
          [] name = "redirect303" -> 303
          [] name = "redirect304" -> 304
          [] name = "redirect305" -> 305
          [] name = "redirect306" -> 306
          [] name = "redirect307" -> 307
          [] name = "redirect308" -> 308
          [] name = "redirect309" -> 309]

\* parameter kinds: "ctx" *Context, "string", "strings" []string,
\* "variadic" ...string, "int", "err" *ErrorResponse
Func(name) ==
    CASE name = "get" ->      \* func() string { return "get" }
           [in |-> <<>>, body |-> <<Return(<<StrVal(<<"get">>)>>)>>]
      [] name = "head" ->
           [in |-> <<>>, body |-> <<Return(<<StrVal(<<"head">>)>>)>>]
      [] name = "post" ->
           [in |-> <<>>, body |-> <<Return(<<StrVal(<<"post">>)>>)>>]
      [] name = "any" ->      \* func(ctx *Context) string
           [in |-> <<"ctx">>, body |-> <<Return(<<StrVal(<<"any">>)>>)>>]
      [] name = "noAuthView" ->   \* Abort(401, "never seen") below helper calls
           [in |-> <<>>, body |-> <<CallAbort(401, <<"never seen">>), Unreachable>>]
      [] name = "panicView" ->    \* panic("die!!") below helper calls
           [in |-> <<>>, body |-> <<CallPanic(StrVal(<<"die!!">>)), Unreachable>>]
      [] name = "secretView" ->   \* panic(errors.New("secret"))
           [in |-> <<>>,
            body |-> <<CallPanic([type |-> "error", v |-> <<"secret">>]), Unreachable>>]
      [] name = "intView" ->      \* func(foo int) int
           [in |-> <<"int">>, body |-> <<Return(<<StrVal(<<"int">>)>>)>>]
      [] name = "sliceIntView" -> \* func(args []string, n int) string
           [in |-> <<"strings", "int">>, body |-> <<Return(<<StrVal(<<"mixed">>)>>)>>]
      [] name = "mount" ->        \* the wrapper closure App.Mount builds
           [in |-> <<"ctx">>, body |-> <<Delegate>>]
      [] name = "simpleView3" ->  \* func(ctx *Context) { ctx.Response.Content = ... }
           [in |-> <<"ctx">>, body |-> <<SetContent(<<"hello world">>)>>]
      [] name = "simpleView7" ->  \* func() []byte
           [in |-> <<>>,
            body |-> <<Return(<<[type |-> "bytes", v |-> <<"hello world">>]>>)>>]
      [] name = "simpleView8" ->  \* func() *strings.Reader, read in two pieces
           [in |-> <<>>,
            body |-> <<Return(<<[type |-> "reader", v |-> <<<<"hello">>, <<" world">>>>]>>)>>]
      [] name = "simpleView9" ->  \* func() TestStruct { return TestStruct{Name: "Hello"} }
           [in |-> <<>>,
            body |-> <<Return(<<[type |-> "struct", v |-> <<<<"Name", "Hello">>>>]>>)>>]
      [] name = "nilView" ->      \* func() *Response { return nil }
           [in |-> <<>>, body |-> <<Return(<<[NewResponse EXCEPT !.nil = TRUE]>>)>>]
      [] name = "chanView" ->     \* func() chan int { return make(chan int) }
           [in |-> <<>>, body |-> <<Return(<<[type |-> "chan", v |-> <<>>]>>)>>]
      [] name = "acceptedView" -> \* func(ctx *Context) string, after ctx.Response.Code = 202
           [in |-> <<"ctx">>,
            body |-> <<SetCode(202), Return(<<StrVal(<<"accepted">>)>>)>>]
      [] name = "createdView" ->  \* func(ctx *Context) *Response: its own Response, 201
           [in |-> <<"ctx">>,
            body |-> <<SetContent(<<"in progress">>),
                       Return(<<[NewResponse EXCEPT !.Code = 201,
                                                    !.Content = <<"created">>]>>)>>]
      [] name = "simpleView4" ->  \* func(test string) string { return "hello " + test }
           [in |-> <<"string">>, body |-> <<ReturnArgs(<<"hello ">>, <<1>>)>>]
      [] name = "simpleView5" ->  \* func(ctx *Context, test string) string
           [in |-> <<"ctx", "string">>, body |-> <<ReturnArgs(<<"hello ">>, <<1>>)>>]
      [] name = "pairView" ->     \* func(a, b string) string { return a + " " + b }
           [in |-> <<"string", "string">>, body |-> <<ReturnArgs(<<>>, <<1, 2>>)>>]
      [] name = "ctxPairView" ->  \* func(ctx *Context, a, b string) string
           [in |-> <<"ctx", "string", "string">>, body |-> <<ReturnArgs(<<>>, <<1, 2>>)>>]
      [] name = "variadicView" -> \* func(ctx *Context, args ...string) string
           [in |-> <<"ctx", "variadic">>, body |-> <<ReturnArgs(<<>>, <<1, 2>>)>>]
      [] name = "variadicOnly" -> \* func(args ...string) string { return args[0] }
           [in |-> <<"variadic">>, body |-> <<ReturnArgs(<<>>, <<1>>)>>]
      [] name = "sliceView" ->    \* func(ctx *Context, args []string) string
           [in |-> <<"ctx", "strings">>, body |-> <<ReturnArgs(<<>>, <<1, 2>>)>>]
      [] name = "sliceOnly" ->    \* func(args []string) string { return args[0] }
           [in |-> <<"strings">>, body |-> <<ReturnArgs(<<>>, <<1>>)>>]
      [] name = "draftView" ->    \* header, body and status set, then Redirect(url)
           [in |-> <<"ctx">>,
            body |-> <<SetType("text/plain"), SetContent(<<"draft">>), SetCode(202),
                       CallRedirect(ExampleUrl), Unreachable>>]
      [] name = "redirectView" -> \* func() { Redirect(url) }
           [in |-> <<>>, body |-> <<CallRedirect(ExampleUrl), Unreachable>>]
      [] name \in DOMAIN RedirectCodes ->   \* func() { RedirectWithCode(url, code) }
           [in |-> <<>>,
            body |-> <<CallRedirectWithCode(ExampleUrl, RedirectCodes[name]), Unreachable>>]
      [] name = "pathView" ->     \* func(ctx *Context) string { return ctx.Path }
           [in |-> <<"ctx">>, body |-> <<ReturnPath>>]
      [] name = "error401" ->     \* func(r *ErrorResponse) *Response, status 999
           [in |-> <<"err">>,
            body |-> <<Return(<<[NewResponse EXCEPT !.Code = 999,
                                                    !.Content = <<"not authed">>]>>)>>]
      [] name = "errorTo404" ->   \* func() *ErrorResponse { return NewError(404, "again") }
           [in |-> <<>>, body |-> <<Return(<<NewError(404, <<"again">>)>>)>>]
      [] name = "errorTo405" ->   \* func() *ErrorResponse { return NewError(405, "again") }
           [in |-> <<>>, body |-> <<Return(<<NewError(405, <<"again">>)>>)>>]
      [] name = "errorStack" ->   \* func(r *ErrorResponse) string: r.Message and r.Stack
           [in |-> <<"err">>, body |-> <<ReturnError>>]
      [] name = "errorText" ->    \* func() string
           [in |-> <<>>, body |-> <<Return(<<StrVal(<<"custom error page">>)>>)>>]
      [] name = "errorPanic" ->   \* func(ctx *Context, r *ErrorResponse) that panics
           [in |-> <<"ctx", "err">>,
            body |-> <<CallPanic(StrVal(<<"handler failed">>)), Unreachable>>]

\* a registered target: a plain function, or the closure of App.Mount
Plain(name) == [fn |-> name, parent |-> "", pattern |-> <<>>, child |-> ""]

MountWrapper(a, pattern, handler) ==
    [fn |-> "mount", parent |-> a, pattern |-> pattern, child |-> handler]

-----------------------------------------------------------------------------
(* Callables: wrapTarget, wrapErrorHandler and the closures they return *)

\* argIsContext / argIsStringSlice
argIsContext(kind) == kind = "ctx"

argIsStringSlice(kind) == kind \in {"strings", "variadic"}

\* wrapTarget: the registration-time inspection of the parameter list.
\* panics = TRUE is the "Invalid target function" panic.
wrapTarget(target) ==
    LET in == Func(target.fn).in
        inNum == Len(in)
        hasContext == inNum > 0 /\ argIsContext(in[1])
        firstArg == IF hasContext THEN 1 ELSE 0
        hasArgs == inNum > firstArg
        valid == \A i \in (firstArg + 1)..inNum : in[i] = "string"
    IN  [nil |-> FALSE, fn |-> target, hasContext |-> hasContext, hasArgs |-> hasArgs,
         panics |-> hasArgs /\ ~(valid \/ argIsStringSlice(in[firstArg + 1]))]

NilTarget == [nil |-> TRUE]

\* wrapErrorHandler: optional *Context, then optionally *ErrorResponse
wrapErrorHandler(handler) ==
    LET in == Func(handler).in
        inNum == Len(in)
        hasContext == inNum > 0 /\ argIsContext(in[1])
        first == IF hasContext THEN 1 ELSE 0
        hasResponse == inNum > first
    IN  [fn |-> Plain(handler), hasContext |-> hasContext, hasResponse |-> hasResponse,
         panics |-> hasResponse /\ in[first + 1] # "err"]

\* Variant of CallAccepts under which reflect calls the function whatever the
\* arguments.  C23_MismatchIsFailure must fail under it.
CallAccepts_Anything(in, callArgs) == TRUE

\* reflect.Value.Call accepts the arguments (given by kind): as many as the
\* function declares, each of the declared type; for a variadic function at
\* least the fixed ones, the rest being packed into its last parameter
CallAccepts(in, callArgs) ==
    LET n == Len(in)
        isVariadic == n > 0 /\ in[n] = "variadic"
        fixed == IF isVariadic THEN n - 1 ELSE n
    IN  /\ IF isVariadic THEN Len(callArgs) >= fixed ELSE Len(callArgs) = n
        /\ \A i \in 1..Len(callArgs) :
              callArgs[i] = (IF i <= fixed THEN in[i] ELSE "string")

\* Abort: builds the ErrorResponse and panics with it
Abort(code, message) ==
    [panicked |-> TRUE, pval |-> NewError(code, message), frames |-> <<"uweb.Abort">>]

\* html.EscapeString on one piece of text
EscapeChar(c) ==
    CASE c = "&" -> "&amp;"
      [] c = "<" -> "&lt;"
      [] c = ">" -> "&gt;"
      [] c = "'" -> "&#39;"
      [] c = "\"" -> "&#34;"
      [] OTHER -> c

EscapeString(url) == [i \in 1..Len(url) |-> EscapeChar(url[i])]

\* Variant of NewRedirect that accepts every status code.
\* C13_Redirect must fail under it.
NewRedirect_AnyCode(url, code) ==
    [panicked |-> FALSE,
     resp |-> [NewResponse EXCEPT !.Code = code, !.header.Location = url]]

\* NewRedirect: code 0 stands for 302; a code that is not a redirect code panics
NewRedirect(url, code) ==
    LET prettyUrl == EscapeString(url)
        c == IF code = 0 THEN 302 ELSE code
    IN  IF c < 301 \/ c > 308 \/ c = 304 \/ c = 305 \/ c = 306
        THEN [panicked |-> TRUE,
              pval |-> StrVal(<<"Invalid redirect status code supplied.">>)]
        ELSE [panicked |-> FALSE,
              resp |-> [NewResponse EXCEPT
                            !.Code = c,
                            !.header.Location = url,
                            !.Content = <<"<html><body><a href=">> \o prettyUrl
                                        \o <<">Redirecting to ">> \o prettyUrl
                                        \o <<"</a></body></html>">>]]

\* RedirectWithCode: panics with the *Response NewRedirect built
RedirectWithCode(url, code) ==
    LET r == NewRedirect(url, code)
    IN  IF r.panicked
        THEN [panicked |-> TRUE, pval |-> r.pval,
              frames |-> <<"uweb.NewRedirect", "uweb.RedirectWithCode">>]
        ELSE [panicked |-> TRUE, pval |-> r.resp, frames |-> <<"uweb.RedirectWithCode">>]

\* Redirect: RedirectWithCode(url, 302)
Redirect(url) ==
    LET o == RedirectWithCode(url, 302)
    IN  [o EXCEPT !.frames = @ \o <<"uweb.Redirect">>]

\* a statement that raises, run below `depth` helper calls; no helper recovers,
\* so the panic unwinds every helper frame
RECURSIVE Helper(_, _)
Helper(s, depth) ==
    IF depth = 0
    THEN CASE s.op = "abort" -> Abort(s.code, s.msg)
           [] s.op = "redirect" -> Redirect(s.msg)
           [] s.op = "redirectWithCode" -> RedirectWithCode(s.msg, s.code)
           [] OTHER -> [panicked |-> TRUE, pval |-> s.vals[1], frames |-> <<>>]
    ELSE LET o == Helper(s, depth - 1)
         IN  [o EXCEPT !.frames = @ \o <<"main.helper">>]

-----------------------------------------------------------------------------
(* Routing: route, router *)

NilSlice == [nil |-> TRUE, v |-> <<>>]

\* newRoute after a successful regexp.Compile
newRoute(pattern) == [re |-> pattern, compiled |-> TRUE, targets |-> EmptyMap]

\* the zero value of the route struct (the loop variable of FindTarget before
\* the first iteration)
ZeroRoute == [re |-> <<>>, compiled |-> FALSE, targets |-> EmptyMap]

\* Variant of AddTarget that keeps the target a method already has.
\* C19_LastRegistrationWins must fail under it.
AddTarget_KeepsFirst(r, method, target) ==
    IF ToUpper(IF method = "" THEN "ANY" ELSE method) \in DOMAIN r.targets THEN r
    ELSE [r EXCEPT !.targets = MapPut(@, ToUpper(IF method = "" THEN "ANY" ELSE method),
                                      target)]

\* route.AddTarget
AddTarget(r, method, target) ==
    [r EXCEPT !.targets = MapPut(@, ToUpper(IF method = "" THEN "ANY" ELSE method), target)]

\* Variant of Parse that hands the capture groups over right to left.
\* C14_ArgsInGroupOrder must fail under it.
Parse_RightToLeft(r, path) ==
    LET values == FindStringSubmatch(r.re, path)
        n == Len(values) - 1
    IN  IF Len(values) = 0 THEN NilSlice
        ELSE [nil |-> FALSE, v |-> [k \in 1..n |-> values[n + 2 - k]]]

\* Variant of Parse under which every route matches every path.
\* C4_NoMatchIs404 must fail under it.
Parse_MatchesAll(r, path) == [nil |-> FALSE, v |-> <<>>]

\* route.Parse: the capture groups of the leftmost match, nil when no match
Parse(r, path) ==
    LET values == FindStringSubmatch(r.re, path)
    IN  IF Len(values) = 0 THEN NilSlice ELSE [nil |-> FALSE, v |-> Tail(values)]

\* Variant of TargetForMethod without the HEAD -> GET step.
\* C2_MethodFallback must fail under it.
TargetForMethod_NoHeadStep(r, m) ==
    LET method == ToUpper(m)
    IN  IF method \in DOMAIN r.targets THEN r.targets[method]
        ELSE IF "ANY" \in DOMAIN r.targets THEN r.targets["ANY"]
        ELSE [nil |-> TRUE]

\* route.TargetForMethod
TargetForMethod(r, m) ==
    LET method == ToUpper(m)
    IN  IF method \in DOMAIN r.targets THEN r.targets[method]
        ELSE IF method = "HEAD" /\ "GET" \in DOMAIN r.targets THEN r.targets["GET"]
        ELSE IF "ANY" \in DOMAIN r.targets THEN r.targets["ANY"]
        ELSE NilTarget

\* Variant of StripPattern that leaves the path as it is.
\* C12_MountDelegates must fail under it.
StripPattern_KeepsPath(r, path) == path

\* Variant of StripPattern that cuts at the start of the match, not its end.
\* C24_PathOnlyShrinks must fail under it.
StripPattern_CutsAtMatchStart(r, path) ==
    LET l == FindStringIndex(r.re, path)
    IN  SubSeq(path, l[1] + 1, Len(path))

\* route.StripPattern: the path after the end of the leftmost match
StripPattern(r, path) ==
    LET l == FindStringIndex(r.re, path)
    IN  SubSeq(path, l[2] + 1, Len(path))

\* router.AddRoute
AddRoute(r, pattern, method, target) ==
    IF pattern \in DOMAIN r
    THEN [err |-> FALSE, routes |-> MapPut(r, pattern, AddTarget(r[pattern], method, target))]
    ELSE IF CompileFails(pattern)
    THEN [err |-> TRUE, routes |-> r]
    ELSE [err |-> FALSE,
          routes |-> MapPut(r, pattern, AddTarget(newRoute(pattern), method, target))]

\* what FindTarget resolved: the route its loop stopped at and the target
\* TargetForMethod returned for it
NoRoute == [matched |-> FALSE, pattern |-> <<>>, target |-> NilTarget]

\* Variant of FindTarget that keeps searching past a matching route that has
\* no target for the method.  C3_StopsAtFirstMatch must fail under it.
FindTarget_KeepsSearching(r, iter, path, method) ==
    LET ok == {i \in 1..Len(iter) : /\ ~Parse(r[iter[i]], path).nil
                                     /\ ~TargetForMethod(r[iter[i]], method).nil}
        route == r[iter[Min(ok)]]
    IN  IF ok = {}
        THEN [panicked |-> TRUE, pval |-> Abort(404, <<"Not Found">>).pval, route |-> NoRoute,
              frames |-> <<"uweb.Abort", "uweb.(*router).FindTarget">>]
        ELSE [panicked |-> FALSE, target |-> TargetForMethod(route, method),
              args |-> Parse(route, path).v,
              route |-> [matched |-> TRUE, pattern |-> route.re,
                         target |-> TargetForMethod(route, method)]]

\* router.FindTarget.  iter is the order in which this call's range over the
\* routes map visits the keys.
FindTarget(r, iter, path, method) ==
    Bind({i \in 1..Len(iter) : ~Parse(r[iter[i]], path).nil}, LAMBDA hits :
    Bind(IF hits # {} THEN r[iter[Min(hits)]]
         ELSE IF Len(iter) > 0 THEN r[iter[Len(iter)]]
         ELSE ZeroRoute, LAMBDA route :
    Bind(IF hits # {} THEN Parse(route, path) ELSE NilSlice, LAMBDA args :
    Bind(IF hits # {} THEN [matched |-> TRUE, pattern |-> route.re, target |-> NilTarget]
         ELSE NoRoute, LAMBDA sel :
    Bind(IF args.nil THEN Abort(404, <<"Not Found">>) ELSE [panicked |-> FALSE],
         LAMBDA notFound :
    IF notFound.panicked
    THEN [panicked |-> TRUE, pval |-> notFound.pval, route |-> sel,
          frames |-> notFound.frames \o <<"uweb.(*router).FindTarget">>]
    ELSE
    Bind(TargetForMethod(route, method), LAMBDA target :
    Bind(IF target.nil THEN Abort(405, <<"Method not allowed">>)
         ELSE [panicked |-> FALSE], LAMBDA notAllowed :
    IF notAllowed.panicked
    THEN [panicked |-> TRUE, pval |-> notAllowed.pval, route |-> sel,
          frames |-> notAllowed.frames \o <<"uweb.(*router).FindTarget">>]
    ELSE [panicked |-> FALSE, target |-> target, args |-> args.v,
          route |-> [sel EXCEPT !.target = target]]
    )))))))

-----------------------------------------------------------------------------
(* Dispatch: calling a target, findAndCall, cast, Handle, ServeHTTP *)

RECURSIVE Handle(_, _, _, _)

\* strings joined by single spaces
RECURSIVE Join(_)
Join(ss) ==
    IF ss = <<>> THEN <<>>
    ELSE IF Len(ss) = 1 THEN ss[1]
    ELSE ss[1] \o <<" ">> \o Join(Tail(ss))

\* the body of function t, statement by statement; args are the values its
\* parameters after the Context received: the captured strings of a target,
\* the *ErrorResponse of an error handler
RECURSIVE RunBody(_, _, _, _, _, _)
RunBody(t, stmts, ctx, args, iter, depth) ==
    IF stmts = <<>>
    THEN [panicked |-> FALSE, results |-> <<>>, ctx |-> ctx, log |-> <<>>]
    ELSE LET s == Head(stmts)
         IN  CASE s.op = "return" ->
                    [panicked |-> FALSE, results |-> s.vals, ctx |-> ctx, log |-> <<>>]
               [] s.op = "args" ->
                    IF \E k \in Range(s.vals) : k > Len(args)
                    THEN [panicked |-> TRUE,
                          pval |-> StrVal(<<"runtime error: index out of range">>),
                          frames |-> <<t.fn>>, ctx |-> ctx, log |-> <<>>]
                    ELSE [panicked |-> FALSE,
                          results |-> <<StrVal(s.msg \o
                                               Join([k \in DOMAIN s.vals |-> args[s.vals[k]]]))>>,
                          ctx |-> ctx, log |-> <<>>]
               [] s.op = "error" ->
                    [panicked |-> FALSE,
                     results |-> <<StrVal(<<"message:">> \o args[1].Message
                                          \o <<"stack:">> \o args[1].Stack)>>,
                     ctx |-> ctx, log |-> <<>>]
               [] s.op = "path" ->
                    [panicked |-> FALSE, results |-> <<StrVal(ctx.Path)>>, ctx |-> ctx,
                     log |-> <<>>]
               [] s.op = "code" ->
                    RunBody(t, Tail(stmts), [ctx EXCEPT !.Response.Code = s.code],
                            args, iter, depth)
               [] s.op = "set" ->
                    RunBody(t, Tail(stmts), [ctx EXCEPT !.Response.Content = s.msg],
                            args, iter, depth)
               [] s.op = "type" ->
                    RunBody(t, Tail(stmts), [ctx EXCEPT !.Response.header.ContentType = s.msg],
                            args, iter, depth)
               [] s.op \in {"abort", "panic", "redirect", "redirectWithCode"} ->
                    Bind(Helper(s, depth), LAMBDA o :
                        IF o.panicked
                        THEN [panicked |-> TRUE, pval |-> o.pval,
                              frames |-> o.frames \o <<t.fn>>, ctx |-> ctx, log |-> <<>>]
                        ELSE RunBody(t, Tail(stmts), ctx, args, iter, depth))
               [] s.op = "mount" ->
                    Bind(Handle(t.child,
                                [ctx EXCEPT !.Path = StripPattern(routes[t.parent][t.pattern], @)],
                                iter, depth), LAMBDA h :
                        IF h.panicked
                        THEN [panicked |-> TRUE, pval |-> h.pval, frames |-> <<t.fn>>,
                              ctx |-> h.ctx, log |-> h.log]
                        ELSE [panicked |-> FALSE, results |-> <<h.resp>>,
                              ctx |-> h.ctx, log |-> h.log])

ReflectFrames == <<"reflect.Value.call", "reflect.Value.Call">>

\* the closure wrapTarget returns, called with the captured arguments
CallTarget(a, w, ctx, args, iter, depth) ==
    IF w.nil
    THEN [panicked |-> TRUE, pval |-> StrVal(<<"invalid memory address or nil pointer dereference">>),
          frames |-> <<>>, ctx |-> ctx, log |-> <<>>]
    ELSE LET f == Func(w.fn.fn)
             callArgs == (IF w.hasContext THEN <<"ctx">> ELSE <<>>) \o
                         (IF w.hasArgs THEN [i \in 1..Len(args) |-> "string"] ELSE <<>>)
         IN  IF ~CallAccepts(f.in, callArgs)
             THEN [panicked |-> TRUE, pval |-> StrVal(<<"reflect: Call with wrong arguments">>),
                   frames |-> ReflectFrames \o <<"uweb.wrapTarget.func1">>,
                   ctx |-> ctx, log |-> <<>>]
             ELSE LET entry == [kind |-> "target", app |-> a, fn |-> w.fn.fn, code |-> 0,
                                    path |-> ctx.Path]
                  IN  Bind(RunBody(w.fn, f.body, ctx, IF w.hasArgs THEN args ELSE <<>>,
                                   iter, depth), LAMBDA o :
                      IF o.panicked
                      THEN [o EXCEPT !.log = <<entry>> \o @,
                                     !.frames = @ \o ReflectFrames \o <<"uweb.wrapTarget.func1">>]
                      ELSE [o EXCEPT !.log = <<entry>> \o @])

\* Variant of the error-handler closure that renders the default page instead
\* of calling the registered function.  C7_CustomHandlerDecides must fail under it.
CallErrorHandler_RendersDefault(a, w, ctx, e, iter, depth) ==
    [panicked |-> FALSE,
     results |-> <<StrVal(<<Itoa(e.Response.Code), " ">> \o e.Response.Content)>>,
     ctx |-> ctx,
     log |-> <<[kind |-> "errorHandler", app |-> a, fn |-> w.fn.fn,
                code |-> e.Response.Code, path |-> ctx.Path]>>]

\* the closure wrapErrorHandler returns
CallErrorHandler(a, w, ctx, e, iter, depth) ==
    LET f == Func(w.fn.fn)
        callArgs == (IF w.hasContext THEN <<"ctx">> ELSE <<>>) \o
                    (IF w.hasResponse THEN <<"err">> ELSE <<>>)
        entry == [kind |-> "errorHandler", app |-> a, fn |-> w.fn.fn,
                  code |-> e.Response.Code, path |-> ctx.Path]
    IN  IF ~CallAccepts(f.in, callArgs)
        THEN [panicked |-> TRUE, pval |-> StrVal(<<"reflect: Call with wrong arguments">>),
              frames |-> ReflectFrames, ctx |-> ctx, log |-> <<>>]
        ELSE Bind(RunBody(w.fn, f.body, ctx, IF w.hasResponse THEN <<e>> ELSE <<>>,
                          iter, depth), LAMBDA o :
                  [o EXCEPT !.log = <<entry>> \o @])

\* Variant of defaultErrorHandler that prints message and stack whenever a
\* stack was captured, whatever Config.Debug is.
\* C26_FailureLooksTheSame must fail under it.
defaultErrorHandler_AlwaysDetail(ctx, e) ==
    LET detail == IF e.Stack # <<>>
                  THEN <<"<div>">> \o e.Message \o <<"</div>", "<pre>">> \o e.Stack
                       \o <<"</pre>">>
                  ELSE <<>>
        code == Itoa(e.Response.Code)
    IN  <<StrVal(<<"<!DOCTYPE><html><head><title>Error: ", code,
                   "</title></head><body><h1>", code, " ">>
                 \o e.Response.Content \o <<"</h1>">> \o detail
                 \o <<"</body></html>">>)>>

\* defaultErrorHandler: the HTML document, with message and stack in debug mode
defaultErrorHandler(ctx, e) ==
    LET detail == IF debug /\ e.Stack # <<>>
                  THEN <<"<div>">> \o e.Message \o <<"</div>", "<pre>">> \o e.Stack
                       \o <<"</pre>">>
                  ELSE <<>>
        code == Itoa(e.Response.Code)
    IN  <<StrVal(<<"<!DOCTYPE><html><head><title>Error: ", code,
                   "</title></head><body><h1>", code, " ">>
                 \o e.Response.Content \o <<"</h1>">> \o detail
                 \o <<"</body></html>">>)>>

\* fmt.Sprint of a recovered panic value
Sprint(err) == err.v

\* Variant of Recovered that treats a recovered *Response as an error of its
\* status code.
\* C27_RedirectIsFinal must fail under it.
Recovered_ResponseAsError(err, frames) ==
    IF err.type = "Response" THEN NewError(err.Code, err.Content)
    ELSE IF err.type = "ErrorResponse" THEN err
    ELSE LET errResponse == NewError(500, Sprint(err))
         IN  SetStack([errResponse EXCEPT !.Response.Content = <<"Internal Server Error">>],
                      TRUE, DebugStack(frames))

\* the deferred function of findAndCall: what recover() turns the panic into
Recovered(err, frames) ==
    IF err.type = "Response" THEN err
    ELSE IF err.type = "ErrorResponse" THEN err
    ELSE LET errResponse == NewError(500, Sprint(err))
         IN  SetStack([errResponse EXCEPT !.Response.Content = <<"Internal Server Error">>],
                      TRUE, DebugStack(frames))

\* App.findAndCall
findAndCall(a, ctx, iter, depth) ==
    Bind(FindTarget(routes[a], iter[a], ctx.Path, ctx.Method), LAMBDA ft :
    Bind(IF ft.panicked
         THEN [panicked |-> TRUE, pval |-> ft.pval, frames |-> ft.frames,
               ctx |-> ctx, log |-> <<>>]
         ELSE CallTarget(a, ft.target, ctx, ft.args, iter, depth), LAMBDA call :
    IF call.panicked
    THEN [results |-> <<Recovered(call.pval, call.frames)>>, ctx |-> call.ctx,
          log |-> call.log, route |-> ft.route]
    ELSE [results |-> call.results, ctx |-> call.ctx, log |-> call.log,
          route |-> ft.route]
    ))

\* json.Marshal fails on channels and functions
MarshalFails(v) == v.type \in {"chan", "func"}

\* json.Marshal of a struct of string fields: {"Name":"Hello"}
RECURSIVE MarshalFields(_)
MarshalFields(fs) ==
    IF fs = <<>> THEN <<>>
    ELSE <<"\"", fs[1][1], "\"", ":", "\"", fs[1][2], "\"">> \o
         (IF Len(fs) > 1 THEN <<",">> ELSE <<>>) \o MarshalFields(Tail(fs))

Marshal(v) == <<"{">> \o MarshalFields(v.v) \o <<"}">>

\* Variant of ReadFrom that stops after the first piece the reader hands out.
\* C16_CastByType must fail under it.
ReadFrom_FirstPiece(r) == IF r.v = <<>> THEN <<>> ELSE r.v[1]

\* bytes.Buffer.ReadFrom: reads until the reader reports EOF
RECURSIVE ReadFrom(_)
ReadFrom(r) ==
    IF r.v = <<>> THEN <<>> ELSE r.v[1] \o ReadFrom([r EXCEPT !.v = Tail(@)])

ApplicationJson == "application/json"

\* App.cast
\* the Go runtime ends the process when a goroutine's stack reaches its limit
StackOverflow == [type |-> "fatal", v |-> <<"stack overflow">>]

\* App.cast; level is the number of calls of cast already on the stack
RECURSIVE cast(_, _, _, _, _, _)
cast(a, ctx, results, iter, depth, level) ==
    IF Len(results) = 0
    THEN [panicked |-> FALSE, resp |-> ctx.Response, ctx |-> ctx, log |-> <<>>]
    ELSE IF Len(results) > 1
    THEN [panicked |-> TRUE, pval |-> StrVal(<<"Too many values returned from target">>),
          ctx |-> ctx, log |-> <<>>]
    ELSE LET result == results[1]
         IN  CASE result.type \in {"string", "bytes"} ->
                    LET c == [ctx EXCEPT !.Response.Content = result.v]
                    IN  [panicked |-> FALSE, resp |-> c.Response, ctx |-> c, log |-> <<>>]
               [] result.type = "reader" ->
                    LET c == [ctx EXCEPT !.Response.Content = ReadFrom(result)]
                    IN  [panicked |-> FALSE, resp |-> c.Response, ctx |-> c, log |-> <<>>]
               [] result.type = "ErrorResponse" /\ level >= MaxCast ->
                    [panicked |-> TRUE, pval |-> StackOverflow, ctx |-> ctx, log |-> <<>>]
               [] result.type = "ErrorResponse" ->
                    LET c == [ctx EXCEPT !.Response = Merge(@, result.Response)]
                        code == result.Response.Code
                    IN  IF code \in DOMAIN errorHandlers[a]
                        THEN Bind(CallErrorHandler(a, errorHandlers[a][code], c, result,
                                                   iter, depth), LAMBDA h :
                                 IF h.panicked
                                 THEN [panicked |-> TRUE, pval |-> h.pval, ctx |-> h.ctx,
                                       log |-> h.log]
                                 ELSE LET n == cast(a, h.ctx, h.results, iter, depth, level + 1)
                                      IN  [n EXCEPT !.log = h.log \o @])
                        ELSE LET n == cast(a, c, defaultErrorHandler(c, result), iter, depth,
                                           level + 1)
                                 entry == [kind |-> "defaultErrorHandler", app |-> a,
                                           fn |-> "defaultErrorHandler", code |-> code,
                                           path |-> ctx.Path]
                             IN  [n EXCEPT !.log = <<entry>> \o @]
               [] result.type = "Response" ->
                    [panicked |-> FALSE, resp |-> result, ctx |-> ctx, log |-> <<>>]
               [] OTHER ->
                    IF MarshalFails(result)
                    THEN [panicked |-> TRUE,
                          pval |-> StrVal(<<"Unknown response type returned from view function">>),
                          ctx |-> ctx, log |-> <<>>]
                    ELSE LET c == [ctx EXCEPT !.Response.Content = Marshal(result),
                                              !.Response.header.ContentType = ApplicationJson]
                         IN  [panicked |-> FALSE, resp |-> c.Response, ctx |-> c,
                              log |-> <<>>]

\* App.Handle
Handle(a, ctx, iter, depth) ==
    Bind(findAndCall(a, ctx, iter, depth), LAMBDA fc :
    Bind(cast(a, fc.ctx, fc.results, iter, depth, 0), LAMBDA c :
    IF c.panicked
    THEN [panicked |-> TRUE, pval |-> c.pval, ctx |-> c.ctx, log |-> fc.log \o c.log,
          route |-> fc.route]
    ELSE [panicked |-> FALSE, resp |-> c.resp, ctx |-> c.ctx, log |-> fc.log \o c.log,
          route |-> fc.route]
    ))

\* Response.WriteResponse: Content-Length, the headers, the status, the content
WriteResponse(r) ==
    [written |-> TRUE, Code |-> r.Code,
     header |-> [r.header EXCEPT !.ContentLength = Len(r.Content)],
     Content |-> r.Content]

-----------------------------------------------------------------------------
(* State and operations *)

NoRequest == [Method |-> "", URL |-> <<>>, depth |-> 0, iter |-> [a \in Apps |-> <<>>]]

NoResponse == [written |-> FALSE]

NoPanic == [type |-> "none"]

\* the goroutines serving requests at the same time
Goroutines == {1, 2}

\* a goroutine that has not entered ServeHTTP
Idle ==
    [stage |-> "new", Method |-> "", URL |-> <<>>, iter |-> [a \in Apps |-> <<>>],
     ctx |-> NewContext("", <<>>), target |-> NilTarget, args |-> <<>>,
     panic |-> NoPanic, frames |-> <<>>, results |-> <<>>, log |-> <<>>,
     resp |-> NewResponse, written |-> NoResponse, escaped |-> NoPanic]

NoReg == [kind |-> "none", app |-> "", api |-> "", pattern |-> <<>>, fn |-> "",
          code |-> 0, result |-> "", returned |-> "", replaced |-> ""]

\* NewApp for every App, init(): Config.Debug = false
Init ==
    /\ routes = [a \in Apps |-> EmptyMap]
    /\ order = [a \in Apps |-> <<>>]
    /\ errorHandlers = [a \in Apps |-> EmptyMap]
    /\ debug = FALSE
    /\ nregs = 0
    /\ lastReg = NoReg
    /\ request = NoRequest
    /\ selected = NoRoute
    /\ invoked = <<>>
    /\ response = NoResponse
    /\ escaped = NoPanic
    /\ inflight = [g \in Goroutines |-> Idle]

\* The history of the last request describes the App as it is now: a change of
\* the App or of Config.Debug starts with a fresh recorder.
Forget ==
    /\ request' = NoRequest
    /\ selected' = NoRoute
    /\ invoked' = <<>>
    /\ response' = NoResponse
    /\ escaped' = NoPanic
    /\ UNCHANGED inflight

\* the package-level registration functions: each calls the method of the
\* same name on DefaultApp and has no result of its own
PackageLevel ==
    {"uweb.Route", "uweb.Delete", "uweb.Get", "uweb.Head", "uweb.Patch", "uweb.Post",
     "uweb.Put", "uweb.Options"}

\* the method each registration function passes to addRoute
ApiMethod(api) ==
    CASE api \in {"Route", "uweb.Route"} -> "ANY"
      [] api \in {"Delete", "uweb.Delete"} -> "DELETE"
      [] api \in {"Get", "uweb.Get"} -> "GET"
      [] api \in {"Head", "uweb.Head"} -> "HEAD"
      [] api \in {"Patch", "uweb.Patch"} -> "PATCH"
      [] api \in {"Post", "uweb.Post"} -> "POST"
      [] api \in {"Put", "uweb.Put"} -> "PUT"
      [] api \in {"Options", "uweb.Options"} -> "OPTIONS"

\* what the caller of registration function api gets, given what addRoute
\* returned: the App methods return it, the package-level functions drop it
Returned(api, result) ==
    IF result = "panic" THEN "panic"
    ELSE IF api \in PackageLevel THEN "nothing"
    ELSE result

\* App.addRoute(pattern, method, target): wrapTarget, then router.AddRoute.
\* result is "panic" when wrapTarget panics, "error" when AddRoute returns an
\* error, "ok" otherwise.  replaced is the function the route held under the
\* method before the call, "" when it held none.
addRoute(a, api, pattern, method, target) ==
    LET callable == wrapTarget(target)
        added == AddRoute(routes[a], pattern, method, callable)
        result == IF callable.panics THEN "panic" ELSE IF added.err THEN "error" ELSE "ok"
        key == ToUpper(IF method = "" THEN "ANY" ELSE method)
        held == pattern \in DOMAIN routes[a] /\ key \in DOMAIN routes[a][pattern].targets
    IN  /\ routes' = IF callable.panics THEN routes
                     ELSE [routes EXCEPT ![a] = added.routes]
        /\ order' = IF result = "ok" /\ pattern \notin DOMAIN routes[a]
                    THEN [order EXCEPT ![a] = Append(@, pattern)]
                    ELSE order
        /\ lastReg' = [kind |-> "route", app |-> a, api |-> api, pattern |-> pattern,
                       fn |-> target.fn, code |-> 0, result |-> result,
                       returned |-> Returned(api, result),
                       replaced |-> IF result = "ok" /\ held
                                    THEN routes[a][pattern].targets[key].fn.fn ELSE ""]

\* App.Route, App.Get, App.Head, App.Post, ... (api names the function)
Register(a, api, pattern, fn) ==
    /\ nregs < MaxRegs
    /\ nregs' = nregs + 1
    /\ addRoute(a, api, pattern, ApiMethod(api), Plain(fn))
    /\ Forget
    /\ UNCHANGED <<errorHandlers, debug>>

\* App.Error(code, handler)
Error(a, code, handler) ==
    LET wrapped == wrapErrorHandler(handler)
    IN  /\ nregs < MaxRegs
        /\ nregs' = nregs + 1
        /\ errorHandlers' = IF wrapped.panics THEN errorHandlers
                            ELSE [errorHandlers EXCEPT ![a] = MapPut(@, code, wrapped)]
        /\ lastReg' = [kind |-> "error", app |-> a, api |-> "Error", pattern |-> <<>>,
                       fn |-> handler, code |-> code,
                       result |-> IF wrapped.panics THEN "panic" ELSE "ok",
                       returned |-> IF wrapped.panics THEN "panic" ELSE "nothing",
                       replaced |-> ""]
        /\ Forget
        /\ UNCHANGED <<routes, order, debug>>

\* App.Mount(pattern, handler): the wrapper closure registered for any method
Mount(a, pattern, handler) ==
    /\ nregs < MaxRegs
    /\ nregs' = nregs + 1
    /\ addRoute(a, "Mount", pattern, "ANY", MountWrapper(a, pattern, handler))
    /\ Forget
    /\ UNCHANGED <<errorHandlers, debug>>

\* App.Reset: a new router; errorHandlers is not touched
Reset(a) ==
    /\ lastReg.kind # "reset"
    /\ routes' = [routes EXCEPT ![a] = EmptyMap]
    /\ order' = [order EXCEPT ![a] = <<>>]
    /\ lastReg' = [NoReg EXCEPT !.kind = "reset", !.app = a, !.api = "Reset"]
    /\ Forget
    /\ UNCHANGED <<errorHandlers, debug, nregs>>

\* Config.Debug = b
SetDebug(b) ==
    /\ debug # b
    /\ debug' = b
    /\ Forget
    /\ UNCHANGED <<routes, order, errorHandlers, nregs, lastReg>>

\* App.ServeHTTP on the App "main" for a request with this method and URL path.
\* One request is explored per state of the App: ServeHTTP leaves the App as it
\* was, so a second request would be served exactly as from the state before.
\* resp is an interface holding the *Response Handle returns, so resp == nil is
\* false even for a nil pointer, and WriteResponse then dereferences it.
ServeHTTP(method, url, iter, depth) ==
    /\ request = NoRequest
    /\ \E h \in {Handle("main", NewContext(method, Tail(url)), iter, depth)} :
        /\ request' = [Method |-> method, URL |-> url, depth |-> depth, iter |-> iter]
        /\ selected' = h.route
        /\ invoked' = h.log
        /\ response' = IF h.panicked \/ h.resp.nil THEN NoResponse
                       ELSE WriteResponse(h.resp)
        /\ escaped' = IF h.panicked THEN h.pval
                      ELSE IF h.resp.nil
                      THEN StrVal(<<"invalid memory address or nil pointer dereference">>)
                      ELSE NoPanic
        /\ UNCHANGED <<routes, order, errorHandlers, debug, nregs, lastReg, inflight>>

-----------------------------------------------------------------------------
(* ServeHTTP step by step, one goroutine per request.  The steps of a       *)
(* goroutine are the calls ServeHTTP and findAndCall make, in order; what a *)
(* goroutine holds between them is in its own stack frame.                  *)

\* Variant of Recovering with one panic slot for the whole process: recover()
\* returns the panic of the first goroutine that is panicking.
\* C18_RequestsIsolated must fail under it.
Recovering_ProcessWide(reqs, g) ==
    LET first == Min({k \in DOMAIN reqs : reqs[k].stage = "panicking"})
    IN  [pval |-> reqs[first].panic, frames |-> reqs[first].frames]

\* what recover() returns in the deferred function of goroutine g's
\* findAndCall: the panic unwinding g's own stack
Recovering(reqs, g) == [pval |-> reqs[g].panic, frames |-> reqs[g].frames]

\* ServeHTTP is entered: NewContext(r), ctx.Path = ctx.Path[1:]
Begin(g, method, url, iter) ==
    /\ inflight[g].stage = "new"
    /\ inflight' = [inflight EXCEPT ![g] =
                        [@ EXCEPT !.stage = "ctx", !.Method = method, !.URL = url,
                                  !.iter = iter, !.ctx = NewContext(method, Tail(url))]]
    /\ UNCHANGED <<routes, order, errorHandlers, debug, nregs, lastReg,
                   request, selected, invoked, response, escaped>>

\* findAndCall: a.router.FindTarget(ctx.Path, ctx.Method)
Find(g) ==
    /\ inflight[g].stage = "ctx"
    /\ \E ft \in {FindTarget(routes["main"], inflight[g].iter["main"],
                              inflight[g].ctx.Path, inflight[g].ctx.Method)} :
          inflight' = [inflight EXCEPT ![g] =
              IF ft.panicked
              THEN [@ EXCEPT !.stage = "panicking", !.panic = ft.pval, !.frames = ft.frames]
              ELSE [@ EXCEPT !.stage = "found", !.target = ft.target, !.args = ft.args]]
    /\ UNCHANGED <<routes, order, errorHandlers, debug, nregs, lastReg,
                   request, selected, invoked, response, escaped>>

\* findAndCall: target(ctx, args...)
Call(g) ==
    /\ inflight[g].stage = "found"
    /\ \E c \in {CallTarget("main", inflight[g].target, inflight[g].ctx, inflight[g].args,
                             inflight[g].iter, 0)} :
          inflight' = [inflight EXCEPT ![g] =
              IF c.panicked
              THEN [@ EXCEPT !.stage = "panicking", !.panic = c.pval, !.frames = c.frames,
                             !.ctx = c.ctx, !.log = c.log]
              ELSE [@ EXCEPT !.stage = "called", !.results = c.results, !.ctx = c.ctx,
                             !.log = c.log]]
    /\ UNCHANGED <<routes, order, errorHandlers, debug, nregs, lastReg,
                   request, selected, invoked, response, escaped>>

\* the deferred function of findAndCall recovers the panic
Recover(g) ==
    /\ inflight[g].stage = "panicking"
    /\ \E r \in {Recovering(inflight, g)} :
          inflight' = [inflight EXCEPT ![g] =
              [@ EXCEPT !.stage = "called", !.results = <<Recovered(r.pval, r.frames)>>,
                        !.panic = NoPanic, !.frames = <<>>]]
    /\ UNCHANGED <<routes, order, errorHandlers, debug, nregs, lastReg,
                   request, selected, invoked, response, escaped>>

\* Handle: a.cast(ctx, results); a panic in cast ends the goroutine
Cast(g) ==
    /\ inflight[g].stage = "called"
    /\ \E c \in {cast("main", inflight[g].ctx, inflight[g].results, inflight[g].iter, 0, 0)} :
          inflight' = [inflight EXCEPT ![g] =
              IF c.panicked
              THEN [@ EXCEPT !.stage = "done", !.escaped = c.pval, !.ctx = c.ctx,
                             !.log = @ \o c.log]
              ELSE [@ EXCEPT !.stage = "cast", !.resp = c.resp, !.ctx = c.ctx,
                             !.log = @ \o c.log]]
    /\ UNCHANGED <<routes, order, errorHandlers, debug, nregs, lastReg,
                   request, selected, invoked, response, escaped>>

\* resp.WriteResponse(w)
Write(g) ==
    /\ inflight[g].stage = "cast"
    /\ inflight' = [inflight EXCEPT ![g] =
          IF inflight[g].resp.nil
          THEN [@ EXCEPT !.stage = "done",
                         !.escaped = StrVal(<<"invalid memory address or nil pointer dereference">>)]
          ELSE [@ EXCEPT !.stage = "done", !.written = WriteResponse(inflight[g].resp)]]
    /\ UNCHANGED <<routes, order, errorHandlers, debug, nregs, lastReg,
                   request, selected, invoked, response, escaped>>

-----------------------------------------------------------------------------
(* The inputs explored *)

\* ^a/$  and  ^a/  : both match the path a/
PatExact == <<"^", "a", "/", "$">>

PatPrefix == <<"^", "a", "/">>

Urls == {<<"/", "a", "/">>, <<"/", "a", "/", "b", "/">>, <<"/", "b", "/">>}

Methods == {"GET", "HEAD", "head", "POST"}

RoutePool ==
    {[api |-> x[1], pattern |-> p, fn |-> x[2]] :
        x \in {<<"Get", "get">>, <<"Head", "head">>, <<"Post", "post">>, <<"Route", "any">>},
        p \in {PatExact, PatPrefix}}
    \cup
    {[api |-> "Route", pattern |-> PatExact, fn |-> f] :
        f \in {"noAuthView", "panicView", "intView", "sliceIntView"}}

ErrorPool ==
    {[code |-> c, fn |-> "error401"] : c \in {401, 404, 405, 500}}
    \cup {[code |-> 401, fn |-> "errorText"], [code |-> 404, fn |-> "errorPanic"]}

Next ==
    \/ \E reg \in RoutePool : Register("main", reg.api, reg.pattern, reg.fn)
    \/ \E e \in ErrorPool : Error("main", e.code, e.fn)
    \/ \E b \in BOOLEAN : SetDebug(b)
    \/ \E m \in Methods, u \in Urls, d \in 0..MaxDepth,
          im \in Perms(DOMAIN routes["main"]), is \in Perms(DOMAIN routes["sub"]) :
            ServeHTTP(m, u, [main |-> im, sub |-> is], d)

Spec == Init /\ [][Next]_vars

-----------------------------------------------------------------------------
(* Registration: patterns that do not compile, the package-level functions, *)
(* a second registration for the same pattern and method, Reset             *)

\* *^a/$ : "missing argument to repetition operator"
PatBad == <<"*", "^", "a", "/", "$">>

RegPool ==
    {[api |-> x[1], pattern |-> p, fn |-> x[2]] :
        x \in {<<"Get", "get">>, <<"Get", "head">>, <<"Post", "post">>, <<"Route", "any">>},
        p \in {PatExact, PatBad}}

PkgPool ==
    {[api |-> x, pattern |-> p, fn |-> "get"] : x \in PackageLevel, p \in {PatExact, PatBad}}

NextReg ==
    \/ \E reg \in RegPool : Register("main", reg.api, reg.pattern, reg.fn)
    \/ \E reg \in PkgPool : Register("default", reg.api, reg.pattern, reg.fn)
    \/ \E e \in {[code |-> 404, fn |-> "error401"]} : Error("main", e.code, e.fn)
    \/ Reset("main")
    \/ \E m \in {"GET", "POST"}, u \in {<<"/", "a", "/">>, <<"/", "b", "/">>},
          im \in Perms(DOMAIN routes["main"]) :
            ServeHTTP(m, u, [main |-> im, sub |-> <<>>, default |-> <<>>], 0)

SpecReg == Init /\ [][NextReg]_vars

-----------------------------------------------------------------------------
(* Mounting: app.Mount("^s/", subApp), subApp.Get("^v/$", ...) *)

PatMount == <<"^", "s", "/">>

PatView == <<"^", "v", "/", "$">>

MountUrls ==
    {<<"/", "s", "/", "v", "/">>, <<"/", "s", "/", "x", "/">>, <<"/", "v", "/">>,
     <<"/", "s", "/", "s", "/", "v", "/">>}

SubPool ==
    {[api |-> "Get", pattern |-> PatView, fn |-> "pathView"],
     [api |-> "Post", pattern |-> PatView, fn |-> "post"],
     [api |-> "Get", pattern |-> PatView, fn |-> "noAuthView"],
     [api |-> "Route", pattern |-> PatMount, fn |-> "pathView"]}

ParentPool ==
    {[api |-> "Get", pattern |-> PatMount, fn |-> "get"],
     [api |-> "Get", pattern |-> PatView, fn |-> "pathView"]}

\* the App mounted in each App: sub in main, default in sub
Child(a) == IF a = "main" THEN "sub" ELSE "default"

NextMount ==
    \/ \E a \in {"main", "sub"} : Mount(a, PatMount, Child(a))
    \/ \E reg \in SubPool : Register("sub", reg.api, reg.pattern, reg.fn)
    \/ \E reg \in ParentPool : Register("main", reg.api, reg.pattern, reg.fn)
    \/ Register("default", "Get", PatView, "pathView")
    \/ \E m \in {"GET", "HEAD", "POST"}, u \in MountUrls,
          im \in Perms(DOMAIN routes["main"]), is \in Perms(DOMAIN routes["sub"]),
          id \in Perms(DOMAIN routes["default"]) :
            ServeHTTP(m, u, [main |-> im, sub |-> is, default |-> id], 0)

SpecMount == Init /\ [][NextMount]_vars

-----------------------------------------------------------------------------
(* Views: what a target does and returns, and what becomes of it *)

RedirectViews == {"redirectView", "draftView"} \cup DOMAIN RedirectCodes

CastViews ==
    {"get", "simpleView3", "simpleView7", "simpleView8", "simpleView9", "acceptedView",
     "createdView"}

FaultViews == {"panicView", "secretView"}

ViewPool ==
    {[api |-> "Get", pattern |-> PatExact, fn |-> f] :
        f \in RedirectViews \cup CastViews \cup FaultViews}

ViewErrorPool ==
    {[code |-> 500, fn |-> "errorText"], [code |-> 302, fn |-> "errorText"],
     [code |-> 301, fn |-> "error401"]}

ViewUrls == {<<"/", "a", "/">>}

NextViews ==
    \/ \E reg \in ViewPool : Register("main", reg.api, reg.pattern, reg.fn)
    \/ \E e \in ViewErrorPool : Error("main", e.code, e.fn)
    \/ \E b \in BOOLEAN : SetDebug(b)
    \/ \E m \in {"GET", "POST"}, u \in ViewUrls, d \in 0..MaxDepth,
          im \in Perms(DOMAIN routes["main"]) :
            ServeHTTP(m, u, [main |-> im, sub |-> <<>>, default |-> <<>>], d)

SpecViews == Init /\ [][NextViews]_vars

-----------------------------------------------------------------------------
(* Captured arguments: app.Get("^h/(w)/$", f), app.Get("^h/(w)/(x)/$", f) *)

PatOne == <<"^", "h", "/", "(", "w", ")", "/", "$">>

PatTwo == <<"^", "h", "/", "(", "w", ")", "/", "(", "x", ")", "/", "$">>

ArgViews ==
    {"simpleView4", "simpleView5", "pairView", "ctxPairView", "variadicView",
     "variadicOnly", "sliceView", "sliceOnly"}

ArgPool ==
    {[api |-> "Get", pattern |-> p, fn |-> f] : p \in {PatOne, PatTwo}, f \in ArgViews}
    \cup {[api |-> "Get", pattern |-> PatExact, fn |-> f] :
            f \in {"variadicOnly", "sliceOnly", "simpleView4"}}

ArgUrls ==
    {<<"/", "h", "/", "w", "/">>, <<"/", "h", "/", "w", "/", "x", "/">>, <<"/", "a", "/">>}

NextArgs ==
    \/ \E reg \in ArgPool : Register("main", reg.api, reg.pattern, reg.fn)
    \/ Error("main", 500, "error401")
    \/ \E u \in ArgUrls, im \in Perms(DOMAIN routes["main"]) :
            ServeHTTP("GET", u, [main |-> im, sub |-> <<>>, default |-> <<>>], 0)

SpecArgs == Init /\ [][NextArgs]_vars

-----------------------------------------------------------------------------
(* Concurrent requests: registration first, then the goroutines *)

Registering == \A g \in Goroutines : inflight[g] = Idle

ConcPool ==
    {[api |-> "Get", pattern |-> PatExact, fn |-> "get"],
     [api |-> "Get", pattern |-> PatExact, fn |-> "noAuthView"],
     [api |-> "Get", pattern |-> PatExact, fn |-> "panicView"],
     [api |-> "Get", pattern |-> PatExact, fn |-> "simpleView3"]}

ConcUrls == {<<"/", "a", "/">>, <<"/", "b", "/">>}

NextConc ==
    \/ Registering /\ \E reg \in ConcPool : Register("main", reg.api, reg.pattern, reg.fn)
    \/ Registering /\ Error("main", 401, "error401")
    \/ \E g \in Goroutines, m \in {"GET", "POST"}, u \in ConcUrls,
          im \in Perms(DOMAIN routes["main"]) :
            Begin(g, m, u, [main |-> im, sub |-> <<>>, default |-> <<>>])
    \/ \E g \in Goroutines : Find(g)
    \/ \E g \in Goroutines : Call(g)
    \/ \E g \in Goroutines : Recover(g)
    \/ \E g \in Goroutines : Cast(g)
    \/ \E g \in Goroutines : Write(g)

SpecConc == Init /\ [][NextConc]_vars

-----------------------------------------------------------------------------
(* Error handlers that return an ErrorResponse *)

ChainPool ==
    {[code |-> 404, fn |-> "errorTo404"], [code |-> 404, fn |-> "errorTo405"],
     [code |-> 405, fn |-> "errorTo404"], [code |-> 405, fn |-> "error401"],
     [code |-> 401, fn |-> "errorTo404"], [code |-> 401, fn |-> "errorText"],
     [code |-> 500, fn |-> "errorStack"]}

ChainViews == {"noAuthView", "chanView", "panicView", "nilView"}

NextChain ==
    \/ \E f \in ChainViews : Register("main", "Get", PatExact, f)
    \/ \E e \in ChainPool : Error("main", e.code, e.fn)
    \/ \E b \in BOOLEAN : SetDebug(b)
    \/ \E m \in {"GET", "POST"}, u \in {<<"/", "a", "/">>, <<"/", "b", "/">>},
          im \in Perms(DOMAIN routes["main"]) :
            ServeHTTP(m, u, [main |-> im, sub |-> <<>>, default |-> <<>>], 0)

SpecChain == Init /\ [][NextChain]_vars

-----------------------------------------------------------------------------
(* Errors in a mounted App: app.Mount("^s/", subApp), handlers on both *)

ChildViews == {"pathView", "noAuthView", "panicView", "chanView"}

MountErrorPool ==
    {[code |-> 404, fn |-> "error401"], [code |-> 500, fn |-> "errorText"],
     [code |-> 404, fn |-> "errorPanic"]}

NextMountErr ==
    \/ Mount("main", PatMount, "sub")
    \/ \E f \in ChildViews : Register("sub", "Get", PatView, f)
    \/ \E a \in {"main", "sub"}, e \in MountErrorPool : Error(a, e.code, e.fn)
    \/ \E m \in {"GET", "POST"},
          u \in {<<"/", "s", "/", "v", "/">>, <<"/", "s", "/", "x", "/">>},
          im \in Perms(DOMAIN routes["main"]), is \in Perms(DOMAIN routes["sub"]) :
            ServeHTTP(m, u, [main |-> im, sub |-> is, default |-> <<>>], 0)

SpecMountErr == Init /\ [][NextMountErr]_vars

-----------------------------------------------------------------------------
(* Vocabulary of the properties: the last request and what it led to *)

Served == request # NoRequest

ReqPath == Tail(request.URL)

ReqMethod == ToUpper(request.Method)

\* the regular expression p matches the request path somewhere
Matches(p) == MatchOffsets(p, ReqPath) # {}

Matching == {p \in DOMAIN routes["main"] : Matches(p)}

\* the patterns in the order the request's range over the routes map visited them
Visited == request.iter["main"]

FirstVisited == Visited[Min({i \in DOMAIN Visited : Matches(Visited[i])})]

\* the patterns in the order they were registered
Registered == order["main"]

FirstRegistered == Registered[Min({i \in DOMAIN Registered : Matches(Registered[i])})]

\* the method keys of a route whose target may serve method M
Serving(T, M) ==
    {k \in DOMAIN T : k = M \/ (M = "HEAD" /\ k = "GET") \/ k = "ANY"}

TargetRan == \E i \in DOMAIN invoked : invoked[i].kind = "target"

Handlers == errorHandlers["main"]

\* the first statement of the target that ran first
FirstStatement == Func(invoked[1].fn).body[1]

TargetRaised(op) ==
    /\ Served
    /\ invoked # <<>>
    /\ invoked[1].kind = "target"
    /\ FirstStatement.op = op

\* the lines of a body between "<pre>" and "</pre>"
StackSection(c) ==
    LET from == {i \in DOMAIN c : c[i] = "<pre>"}
        to == {i \in DOMAIN c : c[i] = "</pre>"}
    IN  IF from = {} \/ to = {} THEN <<>> ELSE SubSeq(c, Min(from) + 1, Min(to) - 1)

\* a parameter list the handler contract allows: an optional leading Context,
\* then either any number of strings or exactly one slice of strings
ValidSignature(in) ==
    LET rest == IF in # <<>> /\ in[1] = "ctx" THEN Tail(in) ELSE in
    IN  \/ \A i \in DOMAIN rest : rest[i] = "string"
        \/ rest = <<"strings">>

-----------------------------------------------------------------------------
(* C1 *)

\* C1 (as stated): when two or more registered routes match the request path,
\* FindTarget selects the one whose pattern was registered earliest.
\* FindTarget ranges over a Go map, so any matching route may be visited first.
C1_EarliestRegisteredWins ==
    (Served /\ Cardinality(Matching) >= 2) =>
        (selected.matched /\ selected.pattern = FirstRegistered)

-----------------------------------------------------------------------------
(* C2 *)

\* C2: for the route FindTarget stopped at and the request method compared
\* case-insensitively, TargetForMethod returns the target registered under the
\* exact method if there is one, else for HEAD the GET target if there is one,
\* else the ANY target if there is one, else no target; and the target that
\* runs is the one it returned.
C2_MethodFallback ==
    (Served /\ selected.matched) =>
        LET T == routes["main"][selected.pattern].targets
            want == IF ReqMethod \in DOMAIN T THEN T[ReqMethod]
                    ELSE IF ReqMethod = "HEAD" /\ "GET" \in DOMAIN T THEN T["GET"]
                    ELSE IF "ANY" \in DOMAIN T THEN T["ANY"]
                    ELSE NilTarget
        IN  /\ selected.target = want
            /\ TargetRan => (~want.nil /\ invoked[1].kind = "target"
                                       /\ invoked[1].fn = want.fn.fn)

\* a lower-case "head" request to a route with a GET and an ANY target but no
\* HEAD target ran the GET target
C2_Witness ==
    /\ Served
    /\ request.Method = "head"
    /\ selected.matched
    /\ DOMAIN routes["main"][selected.pattern].targets = {"GET", "ANY"}
    /\ invoked = <<[kind |-> "target", app |-> "main", fn |-> "get", code |-> 0,
                   path |-> ReqPath]>>
    /\ response.written /\ response.Code = 200

-----------------------------------------------------------------------------
(* C3 *)

\* C3 (amended): when the first route visited that matches the path has no
\* target for the method after the HEAD -> GET -> ANY fallback, resolution stops
\* there: no target runs, the error pipeline is entered with 405 (through the
\* custom handler for 405 if one is registered), and the response has status 405
\* when no custom handler for 405 is registered -- even when another matching
\* route has a target for the method.
C3_StopsAtFirstMatch ==
    (Served /\ Matching # {}
            /\ Serving(routes["main"][FirstVisited].targets, ReqMethod) = {}) =>
        /\ ~TargetRan
        /\ selected.matched /\ selected.pattern = FirstVisited
        /\ invoked # <<>> /\ invoked[1].code = 405
        /\ IF 405 \in DOMAIN Handlers
           THEN invoked[1].kind = "errorHandler" /\ invoked[1].fn = Handlers[405].fn.fn
           ELSE /\ invoked[1].kind = "defaultErrorHandler"
                /\ response.written /\ response.Code = 405
                /\ escaped = NoPanic

\* two routes match, the one visited first has no target for the method, the
\* other one has, and the response is 405
C3_Witness ==
    /\ Served
    /\ Cardinality(Matching) = 2
    /\ Serving(routes["main"][FirstVisited].targets, ReqMethod) = {}
    /\ \E p \in Matching : Serving(routes["main"][p].targets, ReqMethod) # {}
    /\ invoked # <<>> /\ invoked[1].kind = "defaultErrorHandler"
    /\ response.written /\ response.Code = 405

\* C3 (as stated): in that case the outcome is a 405 response and no target
\* runs.  A custom handler registered for 405 decides the final status.
C3_Always405 ==
    (Served /\ Matching # {}
            /\ Serving(routes["main"][FirstVisited].targets, ReqMethod) = {}) =>
        (~TargetRan /\ response.written /\ response.Code = 405)

-----------------------------------------------------------------------------
(* C4 *)

\* C4 (amended): when no registered route matches the path (the router may be
\* empty), no target runs and the error pipeline is entered with 404; when no
\* custom handler for 404 is registered the response has status 404 and the
\* default body naming "Not Found".
C4_NoMatchIs404 ==
    (Served /\ Matching = {}) =>
        /\ ~TargetRan
        /\ ~selected.matched
        /\ invoked # <<>> /\ invoked[1].code = 404
        /\ 404 \notin DOMAIN Handlers =>
              /\ invoked[1].kind = "defaultErrorHandler"
              /\ response.written /\ response.Code = 404
              /\ "404" \in Range(response.Content)
              /\ "Not Found" \in Range(response.Content)
              /\ escaped = NoPanic

\* routes are registered, none matches, the default 404 page is written
C4_Witness ==
    /\ Served
    /\ DOMAIN routes["main"] # {}
    /\ Matching = {}
    /\ 404 \notin DOMAIN Handlers
    /\ response.written /\ response.Code = 404
    /\ "Not Found" \in Range(response.Content)

\* C4 (as stated): when no route matches, no target runs and the final response
\* has status 404.  A custom handler registered for 404 decides the final status.
C4_Always404 ==
    (Served /\ Matching = {}) =>
        (~TargetRan /\ response.written /\ response.Code = 404)

-----------------------------------------------------------------------------
(* C5 *)

\* C5 (as stated): a HEAD request to a route with a GET target and no HEAD target
\* is resolved to the GET target, and the response written for a HEAD request,
\* served by a HEAD target or by the GET fallback, has an empty body.
\* WriteResponse writes Content whatever the method is.
C5_HeadHasNoBody ==
    (Served /\ ReqMethod = "HEAD") =>
        /\ (selected.matched
              /\ "GET" \in DOMAIN routes["main"][selected.pattern].targets
              /\ "HEAD" \notin DOMAIN routes["main"][selected.pattern].targets)
           => selected.target = routes["main"][selected.pattern].targets["GET"]
        /\ (TargetRan /\ response.written) => response.Content = <<>>

-----------------------------------------------------------------------------
(* C6 *)

\* C6 (amended): Abort(code, msg) called at any depth below a target ends the
\* target at once (no statement after the call takes effect and no other target
\* runs) and enters the error pipeline with code; when no custom handler is
\* registered for code, the final response has status code and a body that
\* contains msg.
C6_AbortEndsTarget ==
    TargetRaised("abort") =>
        /\ \A i \in 2..Len(invoked) : invoked[i].kind # "target"
        /\ response.written => "unreachable" \notin Range(response.Content)
        /\ Len(invoked) >= 2 /\ invoked[2].code = FirstStatement.code
        /\ FirstStatement.code \notin DOMAIN Handlers =>
              /\ invoked[2].kind = "defaultErrorHandler"
              /\ response.written /\ response.Code = FirstStatement.code
              /\ Range(FirstStatement.msg) \subseteq Range(response.Content)
              /\ escaped = NoPanic

\* Abort(401, "never seen") raised below the deepest helper call explored, no
\* custom handler for 401: status 401 and the message in the body
C6_Witness ==
    /\ TargetRaised("abort")
    /\ request.depth = MaxDepth
    /\ 401 \notin DOMAIN Handlers
    /\ response.written /\ response.Code = 401
    /\ "never seen" \in Range(response.Content)

\* C6 (as stated): the final response has status exactly code, whether or not
\* a custom handler is registered for code.  The handler's Response decides.
C6_StatusAlwaysCode ==
    TargetRaised("abort") =>
        /\ response.written /\ response.Code = FirstStatement.code
        /\ FirstStatement.code \notin DOMAIN Handlers =>
              Range(FirstStatement.msg) \subseteq Range(response.Content)

-----------------------------------------------------------------------------
(* C7 *)

\* C7: when a custom handler is registered for status S and the request raises
\* an ErrorResponse with status S, the registered handler runs, the default
\* renderer does not, and the response written is what the handler returned: a
\* Response it returns is written as it is (status and body), a string it
\* returns is the body under status S.
C7_CustomHandlerDecides ==
    \A i \in DOMAIN invoked :
        (Served /\ invoked[i].kind \in {"errorHandler", "defaultErrorHandler"}
                /\ invoked[i].code \in DOMAIN Handlers) =>
            LET produced == Func(Handlers[invoked[i].code].fn.fn).body[1]
            IN  /\ invoked[i].kind = "errorHandler"
                /\ invoked[i].fn = Handlers[invoked[i].code].fn.fn
                /\ \A j \in DOMAIN invoked : invoked[j].kind # "defaultErrorHandler"
                /\ (produced.op = "return" /\ produced.vals[1].type = "Response") =>
                      /\ response.written
                      /\ response.Code = produced.vals[1].Code
                      /\ response.Content = produced.vals[1].Content
                /\ (produced.op = "return" /\ produced.vals[1].type = "string") =>
                      /\ response.written
                      /\ response.Code = invoked[i].code
                      /\ response.Content = produced.vals[1].v

\* a target aborted with 401, the handler registered for 401 ran and its
\* Response, status 999 and body "not authed", was written
C7_Witness ==
    /\ TargetRaised("abort")
    /\ FirstStatement.code = 401
    /\ Len(invoked) = 2
    /\ invoked[2] = [kind |-> "errorHandler", app |-> "main", fn |-> "error401",
                     code |-> 401, path |-> ReqPath]
    /\ response.written /\ response.Code = 999
    /\ response.Content = <<"not authed">>

-----------------------------------------------------------------------------
(* C8 *)

\* C8 (amended): a target that panics with a value that is no Response and no
\* ErrorResponse is recovered by findAndCall and enters the error pipeline with
\* 500; when no custom handler for 500 is registered the final response has
\* status 500 and, in debug mode, its body has a non-empty stack section.
C8_PanicIs500 ==
    TargetRaised("panic") =>
        /\ Len(invoked) >= 2 /\ invoked[2].code = 500
        /\ 500 \notin DOMAIN Handlers =>
              /\ invoked[2].kind = "defaultErrorHandler"
              /\ response.written /\ response.Code = 500
              /\ escaped = NoPanic
              /\ debug => StackSection(response.Content) # <<>>

\* a target panicked in debug mode with no custom handler for 500: status 500
\* and a stack section naming the target
C8_Witness ==
    /\ TargetRaised("panic")
    /\ debug
    /\ 500 \notin DOMAIN Handlers
    /\ response.written /\ response.Code = 500
    /\ invoked[1].fn \in Range(StackSection(response.Content))

\* C8 (as stated): the final response has status 500 whenever a target panics.
\* A custom handler registered for 500 decides the final status.
C8_Always500 ==
    TargetRaised("panic") =>
        /\ response.written /\ response.Code = 500
        /\ (debug /\ 500 \notin DOMAIN Handlers) =>
              StackSection(response.Content) # <<>>

-----------------------------------------------------------------------------
(* C9 *)

\* C9 (as stated): every request ends with exactly one response written and no
\* panic leaving ServeHTTP, whatever targets and error handlers are registered.
\* Only findAndCall recovers: a panic in a custom error handler or in cast
\* leaves Handle and ServeHTTP.
C9_NothingEscapes ==
    Served => (response.written /\ escaped = NoPanic)

-----------------------------------------------------------------------------
(* C10 *)

\* C10 (as stated): a registration whose function has a parameter list other
\* than an optional leading Context followed by strings only or by exactly one
\* slice of strings is rejected, and no target with such a parameter list is in
\* the router.  wrapTarget accepts any list whose first argument after the
\* Context is a slice of strings.
C10_InvalidRejected ==
    /\ (lastReg.kind = "route" /\ ~ValidSignature(Func(lastReg.fn).in)) =>
            lastReg.result = "panic"
    /\ \A p \in DOMAIN routes["main"] :
          \A m \in DOMAIN routes["main"][p].targets :
              ValidSignature(Func(routes["main"][p].targets[m].fn.fn).in)

-----------------------------------------------------------------------------
(* Registration results                                                     *)

\* C11: each registration function (App method or package-level function)
\* returns no error for a pattern that compiles and a non-nil error for one
\* that does not, and in the error case no route is added for the pattern.
\* The package-level functions have no result, so their caller gets neither.
C11_RegistrationReturnsError ==
    (lastReg.kind = "route" /\ lastReg.result # "panic") =>
        IF CompileFails(lastReg.pattern)
        THEN /\ lastReg.returned = "error"
             /\ lastReg.pattern \notin DOMAIN routes[lastReg.app]
        ELSE lastReg.returned = "ok"

-----------------------------------------------------------------------------
(* Mounted handlers                                                         *)

\* the wrapper closure of Mount(P, child) on the parent is the target the
\* request resolved to
Delegated(P, child) ==
    /\ Served
    /\ selected.matched /\ selected.pattern = P
    /\ ~selected.target.nil
    /\ selected.target.fn = MountWrapper("main", P, child)

\* the request path without the prefix the anchored pattern P consumed
Remainder(P) == SubSeq(ReqPath, Len(Literals(P)) + 1, Len(ReqPath))

\* what the child answers to the request when it is given the remainder as path
ChildAlone(P, child) ==
    Handle(child, [NewContext(request.Method, ReqPath) EXCEPT !.Path = Remainder(P)],
           request.iter, request.depth)

\* C12 (as amended): when resolution stops at the route of the mount pattern P
\* and P holds no target for the request's method other than the mount
\* wrapper, the request is delegated to the child with ctx.Path equal to the
\* request path with the prefix P consumed removed, and the child's response
\* is the final response; with B mounted at ^s/ a GET for /s/v/ is handled by
\* B's target registered at ^v/$, which observes path "v/".
C12_MountDelegates ==
    Delegated(PatMount, "sub") =>
        /\ ~ChildAlone(PatMount, "sub").panicked
        /\ response = WriteResponse(ChildAlone(PatMount, "sub").resp)
        /\ invoked = <<[kind |-> "target", app |-> "main", fn |-> "mount", code |-> 0,
                        path |-> ReqPath]>>
                        \o ChildAlone(PatMount, "sub").log
        /\ \A i \in DOMAIN invoked :
              (invoked[i].app = "sub" /\ invoked[i].fn = "pathView") =>
                  response.Content = Remainder(PatMount)

\* reached: GET /s/v/ delegated to the child, whose target at ^v/$ observed "v/"
C12_Witness ==
    /\ Delegated(PatMount, "sub")
    /\ ReqMethod = "GET" /\ ReqPath = <<"s", "/", "v", "/">>
    /\ Len(invoked) = 2 /\ invoked[2].app = "sub" /\ invoked[2].fn = "pathView"
    /\ response.written /\ response.Code = 200 /\ response.Content = <<"v", "/">>

\* C12 as stated: with the child mounted at P, a request of any method whose
\* path matches P is delegated to the child.
C12_AnyMethodDelegated ==
    (/\ Served
     /\ PatMount \in DOMAIN routes["main"]
     /\ "ANY" \in DOMAIN routes["main"][PatMount].targets
     /\ routes["main"][PatMount].targets["ANY"].fn = MountWrapper("main", PatMount, "sub")
     /\ Matches(PatMount))
        => (invoked # <<>> /\ invoked[1].fn = "mount")

-----------------------------------------------------------------------------
(* Redirects                                                                *)

RedirectCodeOk == {301, 302, 303, 307, 308}

\* the target that ran called Redirect or RedirectWithCode first
TargetRedirected ==
    TargetRaised("redirect") \/ TargetRaised("redirectWithCode")

\* C13 (as amended): Redirect called inside a target with a code in
\* {301, 302, 303, 307, 308} (plain Redirect uses 302) yields a final response
\* with exactly that status and a Location header equal to the given url; code
\* 0 stands for 302 and yields a 302 redirect; with any other code no redirect
\* response is produced: the call fails with "Invalid redirect status code
\* supplied.", which enters the error pipeline as a 500.
C13_Redirect ==
    TargetRedirected =>
        /\ Len(invoked) >= 1 /\ \A i \in 2..Len(invoked) : invoked[i].kind # "target"
        /\ IF FirstStatement.code \in RedirectCodeOk \cup {0}
           THEN /\ response.written
                /\ response.Code = (IF FirstStatement.code = 0 THEN 302
                                    ELSE FirstStatement.code)
                /\ response.header.Location = FirstStatement.msg
                /\ Len(invoked) = 1
                /\ escaped = NoPanic
           ELSE /\ Len(invoked) = 2 /\ invoked[2].code = 500
                /\ response.written =>
                      /\ response.header.Location = <<>>
                      /\ response.Code \notin 300..399
                /\ (500 \notin DOMAIN Handlers) =>
                      /\ response.written /\ response.Code = 500
                      /\ debug => "Invalid redirect status code supplied."
                                      \in Range(response.Content)

\* reached: RedirectWithCode(url, 307) gave status 307 with Location = url,
\* the url in the body escaped
C13_Witness ==
    /\ TargetRaised("redirectWithCode")
    /\ FirstStatement.code = 307
    /\ response.written /\ response.Code = 307
    /\ response.header.Location = ExampleUrl
    /\ "&amp;" \in Range(response.Content)

\* C13 as stated: a code outside {301, 302, 303, 307, 308} never produces a
\* redirect response.
C13_OtherCodesFail ==
    (TargetRedirected /\ FirstStatement.code \notin RedirectCodeOk) =>
        ~(response.written /\ response.Code \in 300..399
                           /\ response.header.Location # <<>>)

-----------------------------------------------------------------------------
(* Captured arguments                                                       *)

\* the function the request resolved to, and its parameter list
SelectedFn == selected.target.fn.fn

SelectedIn == Func(SelectedFn).in

\* the capture groups of the resolved route's pattern in the request path,
\* left to right
Groups == Tail(FindStringSubmatch(selected.pattern, ReqPath))

\* the parameter list is n individual strings, optionally after a Context
FixedStrings(in, n) ==
    \/ in = [i \in 1..n |-> "string"]
    \/ in = <<"ctx">> \o [i \in 1..n |-> "string"]

\* the parameter list is one collection of strings of the given kind,
\* optionally after a Context
OneCollection(in, kind) == in = <<kind>> \/ in = <<"ctx", kind>>

Resolved == Served /\ selected.matched /\ ~selected.target.nil

\* what the body of the resolved function returns for the arguments args
Expected(args) ==
    LET s == Func(SelectedFn).body[1]
    IN  s.msg \o Join([k \in DOMAIN s.vals |-> args[s.vals[k]]])

\* C14: a target with n individual string parameters (optionally preceded by
\* a Context) bound to a pattern with n capture groups is invoked with the
\* Context first (if declared) and then the n captured substrings in
\* left-to-right capture-group order: the response is 200 with the body the
\* function builds from them.
C14_ArgsInGroupOrder ==
    (Resolved /\ Len(Groups) > 0 /\ FixedStrings(SelectedIn, Len(Groups))) =>
        /\ invoked = <<[kind |-> "target", app |-> "main", fn |-> SelectedFn, code |-> 0,
                        path |-> ReqPath]>>
        /\ escaped = NoPanic
        /\ response.written /\ response.Code = 200
        /\ response.Content = Expected(Groups)

\* reached: func(ctx, a, b string) at ^h/(w)/(x)/$ answered GET /h/w/x/ with
\* "w x"; func(test string) at ^h/(w)/$ answers /h/w/ with "hello w"
C14_Witness ==
    /\ Resolved
    /\ SelectedFn = "ctxPairView"
    /\ selected.pattern = PatTwo
    /\ response.written /\ response.Code = 200
    /\ response.Content = <<"w", " ", "x">>

\* C15: a target whose string arguments are declared as one sequence-of-strings
\* parameter, variadic (args ...string) or a plain slice (args []string),
\* optionally preceded by a Context, is invoked with the entire
\* captured-argument list as that one collection, for any number of capture
\* groups.  The function is entered, and what it builds from the elements it
\* reads is the body of a 200 response.
C15_CollectionGetsAllArgs ==
    (Resolved /\ (OneCollection(SelectedIn, "variadic") \/ OneCollection(SelectedIn, "strings"))) =>
        /\ invoked # <<>>
        /\ invoked[1] = [kind |-> "target", app |-> "main", fn |-> SelectedFn, code |-> 0,
                        path |-> ReqPath]
        /\ (\A k \in Range(Func(SelectedFn).body[1].vals) : k <= Len(Groups)) =>
              /\ escaped = NoPanic
              /\ response.written /\ response.Code = 200
              /\ response.Content = Expected(Groups)

-----------------------------------------------------------------------------
(* Return values                                                            *)

\* the target ran to its end: no Abort, Redirect or panic in its body
TargetReturned ==
    /\ Served
    /\ Len(invoked) = 1 /\ invoked[1].kind = "target"
    /\ \A i \in DOMAIN Func(invoked[1].fn).body :
          Func(invoked[1].fn).body[i].op \in {"return", "set", "code"}

\* the in-progress Response after the assignments in the statements stmts
RECURSIVE InProgress(_, _)
InProgress(r, stmts) ==
    IF stmts = <<>> THEN r
    ELSE LET st == Head(stmts)
         IN  InProgress(CASE st.op = "set" -> [r EXCEPT !.Content = st.msg]
                          [] st.op = "code" -> [r EXCEPT !.Code = st.code]
                          [] OTHER -> r,
                        Tail(stmts))

Body == Func(invoked[1].fn).body

\* the values of the target's return statement, <<>> when it has none
ReturnValues ==
    IF Body[Len(Body)].op = "return" THEN Body[Len(Body)].vals ELSE <<>>

\* C16 (as amended): the caster converts a target's single return value by
\* its runtime type: text and raw bytes become the body verbatim, a readable
\* stream is fully drained into the body, any other value is JSON-serialised
\* into the body with Content-Type application/json, and a target that
\* returns nothing yields the in-progress Response unchanged; in these cases
\* the status is the in-progress Response's status.  A pre-built Response is
\* returned as it is, with its own status, headers and body.
C16_CastByType ==
    TargetReturned =>
        /\ response.written /\ escaped = NoPanic
        /\ IF ReturnValues = <<>>
           THEN response = WriteResponse(InProgress(NewResponse, Body))
           ELSE CASE ReturnValues[1].type \in {"string", "bytes"} ->
                       response = WriteResponse([InProgress(NewResponse, Body) EXCEPT
                                                    !.Content = ReturnValues[1].v])
                  [] ReturnValues[1].type = "reader" ->
                       response = WriteResponse([InProgress(NewResponse, Body) EXCEPT
                                                    !.Content = <<"hello", " world">>])
                  [] ReturnValues[1].type = "Response" ->
                       response = WriteResponse(ReturnValues[1])
                  [] ReturnValues[1].type = "struct" ->
                       response = WriteResponse([InProgress(NewResponse, Body) EXCEPT
                           !.Content = <<"{", "\"", "Name", "\"", ":", "\"", "Hello", "\"", "}">>,
                           !.header.ContentType = ApplicationJson])

\* reached: the struct came out as {"Name":"Hello"} with status 200
C16_Witness ==
    /\ TargetReturned
    /\ invoked[1].fn = "simpleView9"
    /\ response.Code = 200
    /\ response.header.ContentType = ApplicationJson
    /\ response.header.ContentLength = 9

\* C16 as stated: in all non-error cases the status stays at the in-progress
\* Response's status.
C16_StatusStays ==
    TargetReturned => response.Code = InProgress(NewResponse, Body).Code

-----------------------------------------------------------------------------
(* Reset                                                                    *)

\* the App was reset and nothing has been registered since
AfterReset == lastReg.kind = "reset"

\* C17: App.Reset returns the App to its initial state: after Reset,
\* whatever was registered before, the App has no routes, no mounts and no
\* custom error handlers, so every request gets the default 404 rendering.
C17_ResetRestoresInitial ==
    AfterReset =>
        /\ routes[lastReg.app] = EmptyMap
        /\ errorHandlers[lastReg.app] = EmptyMap
        /\ Served =>
              /\ invoked = <<[kind |-> "defaultErrorHandler", app |-> "main",
                              fn |-> "defaultErrorHandler", code |-> 404,
                              path |-> ReqPath]>>
              /\ response.written /\ response.Code = 404

-----------------------------------------------------------------------------
(* Concurrent requests                                                      *)

\* what the request of goroutine g gets when it is handled alone
Alone(g) ==
    Handle("main", NewContext(inflight[g].Method, Tail(inflight[g].URL)),
           inflight[g].iter, 0)

\* C18: with two or more requests handled concurrently by the same App after
\* registration has finished, under every interleaving each request's final
\* response equals the response it would get if handled alone: what is
\* written, the callables run and a panic that leaves ServeHTTP are those of
\* the request alone, and while it is in flight its Context is not touched
\* by the other request.
C18_RequestsIsolated ==
    \A g \in Goroutines :
        /\ inflight[g].stage = "done" =>
              /\ inflight[g].log = Alone(g).log
              /\ inflight[g].written =
                    (IF Alone(g).panicked \/ Alone(g).resp.nil THEN NoResponse
                     ELSE WriteResponse(Alone(g).resp))
              /\ inflight[g].escaped =
                    (IF Alone(g).panicked THEN Alone(g).pval
                     ELSE IF Alone(g).resp.nil
                     THEN StrVal(<<"invalid memory address or nil pointer dereference">>)
                     ELSE NoPanic)
        /\ inflight[g].stage \in {"ctx", "found"} =>
              inflight[g].ctx = NewContext(inflight[g].Method, Tail(inflight[g].URL))

\* reached: one request has ended with the 401 of its Abort while the 404
\* panic of the other is still unwinding
C18_Witness ==
    /\ inflight[1].stage = "done"
    /\ inflight[1].written # NoResponse /\ inflight[1].written.Code = 401
    /\ inflight[2].stage = "panicking"
    /\ inflight[2].panic.type = "ErrorResponse" /\ inflight[2].panic.Response.Code = 404

-----------------------------------------------------------------------------
(* Overwriting a registration                                               *)

\* the targets the route of pattern p of App a holds, by method key
TargetsOf(r, a, p) == IF p \in DOMAIN r[a] THEN r[a][p].targets ELSE EmptyMap

-----------------------------------------------------------------------------
(* Error handlers that return an ErrorResponse                              *)

\* an error handler ran for the request
HandlerRan == Served /\ \E i \in DOMAIN invoked : invoked[i].kind = "errorHandler"

\* C20: casting an ErrorResponse always terminates with a final Response:
\* when a custom error handler itself returns an ErrorResponse it re-enters
\* the same pipeline, and the recursion is bounded even when a handler returns
\* an ErrorResponse carrying its own trigger code (or two handlers return each
\* other's codes).
C20_CastTerminates ==
    HandlerRan =>
        /\ escaped # StackOverflow
        /\ response.written

-----------------------------------------------------------------------------
(* Return values that cannot be serialised                                  *)

\* the target ran to its end and returned a value json.Marshal rejects
ReturnedUnserialisable ==
    /\ TargetReturned
    /\ ReturnValues # <<>>
    /\ ReturnValues[1].type \in {"chan", "func"}

\* C21: when a target returns a value of an otherwise unsupported type that
\* fails JSON serialisation, the failure is not swallowed and is treated as an
\* unexpected failure: the request ends with a status-500 Response, not with
\* a success Response carrying an empty or partial body and not with an
\* unrecovered fault.
C21_MarshalFailureIs500 ==
    ReturnedUnserialisable =>
        /\ escaped = NoPanic
        /\ response.written /\ response.Code = 500

-----------------------------------------------------------------------------
(* The ErrorResponse of an unexpected failure                               *)

\* the target panicked with a value of its own and the handler registered
\* for 500 reported the ErrorResponse it was given
FailureReported ==
    /\ TargetRaised("panic")
    /\ Len(invoked) = 2
    /\ invoked[2] = [kind |-> "errorHandler", app |-> "main", fn |-> "errorStack",
                     code |-> 500, path |-> ReqPath]
    /\ response.written

\* the part of the report after "stack:"
ReportedStack ==
    SubSeq(response.Content,
           Min({i \in DOMAIN response.Content : response.Content[i] = "stack:"}) + 1,
           Len(response.Content))

\* the part of the report between "message:" and "stack:"
ReportedMessage ==
    SubSeq(response.Content, 2,
           Min({i \in DOMAIN response.Content : response.Content[i] = "stack:"}) - 1)

\* C22: the ErrorResponse built for an unexpected failure has status 500 and
\* Message equal to the fault's description, and a captured stack trace is
\* attached to it only when the process is in debug mode (in non-debug mode
\* its Stack is empty).
C22_StackOnlyInDebug ==
    FailureReported =>
        /\ ReportedMessage = Sprint(FirstStatement.vals[1])
        /\ ~debug => ReportedStack = <<>>

-----------------------------------------------------------------------------
(* String parameters and capture groups that do not agree in number         *)

\* the number of capture groups of pattern p
NumGroups(p) == Len(GroupSpans(ReBody(p), 1, 0, 0))

\* the number of individual string parameters in the parameter list
NumStrings(in) == Cardinality({i \in DOMAIN in : in[i] = "string"})

\* function fn takes n >= 1 individual strings and pattern p has k # n groups
Mismatched(fn, p) ==
    /\ NumStrings(Func(fn).in) >= 1
    /\ FixedStrings(Func(fn).in, NumStrings(Func(fn).in))
    /\ NumGroups(p) # NumStrings(Func(fn).in)

\* C23 (as amended): registering a target with n >= 1 individual string
\* parameters on a pattern with k # n capture groups succeeds, and every
\* request that resolves to it ends in an argument-count fault that is
\* recovered as an unexpected failure: the target's body is not executed and a
\* 500 error enters the error pipeline; the final response has status 500
\* when no custom handler is registered for 500.
C23_MismatchIsFailure ==
    /\ (lastReg.kind = "route" /\ Mismatched(lastReg.fn, lastReg.pattern)) =>
          (lastReg.returned = "ok" /\ lastReg.pattern \in DOMAIN routes[lastReg.app])
    /\ (Resolved /\ Mismatched(SelectedFn, selected.pattern)) =>
          /\ ~TargetRan
          /\ escaped = NoPanic
          /\ Len(invoked) = 1 /\ invoked[1].code = 500
          /\ response.written
          /\ (500 \notin DOMAIN Handlers) =>
                (invoked[1].kind = "defaultErrorHandler" /\ response.Code = 500)

\* reached: func(a, b string) registered at ^h/(w)/$ answered GET /h/w/ with 500
C23_Witness ==
    /\ Resolved /\ Mismatched(SelectedFn, selected.pattern)
    /\ SelectedFn = "pairView" /\ selected.pattern = PatOne
    /\ 500 \notin DOMAIN Handlers
    /\ response.written /\ response.Code = 500

\* C23 as stated: the final response has status 500 for every such request.
C23_Always500 ==
    (Resolved /\ Mismatched(SelectedFn, selected.pattern)) =>
        (response.written /\ response.Code = 500)

-----------------------------------------------------------------------------
(* C24 *)

IsSuffix(s, t) == Len(s) <= Len(t) /\ SubSeq(t, Len(t) - Len(s) + 1, Len(t)) = s

\* entry i of the log is a call of a mount wrapper that went on into the child
MountStep(i) ==
    /\ i \in DOMAIN invoked /\ i < Len(invoked)
    /\ invoked[i].kind = "target" /\ invoked[i].fn = "mount"

\* the text of path after the prefix the anchored pattern P consumed
AfterPrefix(P, path) == SubSeq(path, Len(Literals(P)) + 1, Len(path))

\* C24: through any depth of nested mounts the ctx.Path every callable is
\* called with is a suffix of the request path and never grows from one call
\* to the next; each mount step hands the nested App exactly the text after
\* the match of the mount pattern at that level, and the nested App resolves
\* its routes against that shortened path.
C24_PathOnlyShrinks ==
    Served =>
        /\ \A i \in DOMAIN invoked : IsSuffix(invoked[i].path, ReqPath)
        /\ \A i, j \in DOMAIN invoked :
              i <= j => Len(invoked[j].path) <= Len(invoked[i].path)
        /\ \A i \in DOMAIN invoked : MountStep(i) =>
              /\ invoked[i].path = Literals(PatMount) \o invoked[i + 1].path
              /\ invoked[i + 1].path = AfterPrefix(PatMount, invoked[i].path)
              /\ invoked[i + 1].app = Child(invoked[i].app)
              /\ invoked[i + 1].kind = "target" =>
                    \E p \in DOMAIN routes[invoked[i + 1].app] :
                        MatchOffsets(p, invoked[i + 1].path) # {}
              /\ (invoked[i + 1].kind = "defaultErrorHandler"
                    /\ invoked[i + 1].code = 404) =>
                    \A p \in DOMAIN routes[invoked[i + 1].app] :
                        MatchOffsets(p, invoked[i + 1].path) = {}

\* reached: GET /s/s/v/ through two mounts: main sees "s/s/v/", sub sees
\* "s/v/", and the innermost App resolves "v/"
C24_Witness ==
    /\ Served /\ ReqPath = <<"s", "/", "s", "/", "v", "/">>
    /\ Len(invoked) = 3
    /\ MountStep(1) /\ invoked[1].app = "main" /\ invoked[1].path = ReqPath
    /\ MountStep(2) /\ invoked[2].app = "sub" /\ invoked[2].path = <<"s", "/", "v", "/">>
    /\ invoked[3].app = "default" /\ invoked[3].path = <<"v", "/">>
    /\ response.written

-----------------------------------------------------------------------------
(* A nil Response                                                           *)

\* the target ran to its end and returned a nil *Response, which cast hands
\* back as it is
ReturnedNil ==
    /\ TargetReturned
    /\ ReturnValues # <<>>
    /\ ReturnValues[1].type = "Response" /\ ReturnValues[1].nil

\* C25: if App.Handle yields a nil Response for a request (a target returns a
\* nil *Response), ServeHTTP substitutes a 404 'Page Not Found' error response
\* and writes it to the transport instead of failing.
C25_NilBecomes404 ==
    ReturnedNil =>
        /\ escaped = NoPanic
        /\ response = WriteResponse(NewError(404, <<"Page Not Found">>).Response)

-----------------------------------------------------------------------------
(* What an unexpected failure shows in non-debug mode                       *)

\* the target that ran raised a fault that is neither a Response nor an
\* ErrorResponse: a panic of its own, or NewRedirect's rejection of the code
UnexpectedFailure ==
    \/ TargetRaised("panic")
    \/ TargetRaised("redirectWithCode") /\ FirstStatement.code \notin RedirectCodeOk \cup {0}

\* the description of the fault raised
FaultValue ==
    IF FirstStatement.op = "panic" THEN FirstStatement.vals[1].v
    ELSE <<"Invalid redirect status code supplied.">>

\* the default page for 500 with the generic text and nothing else
GenericFailure ==
    WriteResponse([NewResponse EXCEPT
        !.Code = 500,
        !.Content = <<"<!DOCTYPE><html><head><title>Error: ", "500",
                      "</title></head><body><h1>", "500", " ",
                      "Internal Server Error", "</h1>", "</body></html>">>])

\* C26: in non-debug mode with no custom handler registered for 500, the
\* final response to a request whose target raises an unexpected failure is
\* the same for every fault value: status 500 with the generic "Internal
\* Server Error" text, and neither the fault's description nor any stack
\* trace appears in the body.
C26_FailureLooksTheSame ==
    (UnexpectedFailure /\ ~debug /\ 500 \notin DOMAIN Handlers) =>
        /\ escaped = NoPanic
        /\ response = GenericFailure
        /\ Range(FaultValue) \cap Range(response.Content) = {}
        /\ StackSection(response.Content) = <<>>
        /\ "<pre>" \notin Range(response.Content)

\* reached: panic(errors.New("secret")) in non-debug mode, answered with the
\* generic page
C26_Witness ==
    /\ UnexpectedFailure /\ ~debug /\ 500 \notin DOMAIN Handlers
    /\ invoked[1].fn = "secretView" /\ FaultValue = <<"secret">>
    /\ response.written /\ response.Code = 500
    /\ "Internal Server Error" \in Range(response.Content)

-----------------------------------------------------------------------------
(* A redirect raised in a target                                            *)

\* statement k of the target that ran is a call of Redirect or
\* RedirectWithCode, reached after assignments to ctx.Response only
RedirectAt(k) ==
    /\ k \in DOMAIN Body
    /\ Body[k].op \in {"redirect", "redirectWithCode"}
    /\ \A j \in 1..(k - 1) : Body[j].op \in {"set", "code", "type"}

\* the target that ran raised a redirect NewRedirect accepted
RaisedRedirect ==
    /\ Served
    /\ invoked # <<>> /\ invoked[1].kind = "target"
    /\ \E k \in DOMAIN Body : RedirectAt(k) /\ Body[k].code \in RedirectCodeOk \cup {0}

TheRedirect == Body[CHOOSE k \in DOMAIN Body : RedirectAt(k)]

\* what the target assigned to field op ("set": body, "type": Content-Type,
\* "code": status) of the in-progress Response before the redirect
Draft(op) ==
    {IF op = "code" THEN Body[j].code ELSE Body[j].msg :
        j \in {j \in DOMAIN Body : Body[j].op = op}}

\* C27: a Redirect raised inside a target makes the redirect Response built by
\* NewRedirect the final response as it is: it supersedes the in-progress
\* ctx.Response (headers and body set on it earlier by the target are not
\* part of the final response) and is not passed through the error pipeline,
\* so a custom error handler registered for the redirect's status code is
\* never invoked for it.
C27_RedirectIsFinal ==
    RaisedRedirect =>
        /\ escaped = NoPanic
        /\ Len(invoked) = 1
        /\ \A i \in DOMAIN invoked :
              invoked[i].kind \notin {"errorHandler", "defaultErrorHandler"}
        /\ response = WriteResponse(NewRedirect(TheRedirect.msg, TheRedirect.code).resp)
        /\ response.Code = (IF TheRedirect.code = 0 THEN 302 ELSE TheRedirect.code)
        /\ response.header.Location = TheRedirect.msg
        /\ response.header.ContentType = TextHtml
        /\ response.Content \notin Draft("set")
        /\ response.header.ContentType \notin Draft("type")
        /\ response.Code \notin Draft("code")

\* reached: a target set Content-Type, body and status 202 and then called
\* Redirect while a handler for 302 was registered; the answer is the 302
\* redirect
C27_Witness ==
    /\ RaisedRedirect
    /\ invoked[1].fn = "draftView"
    /\ 302 \in DOMAIN Handlers
    /\ response.written /\ response.Code = 302
    /\ response.header.Location = ExampleUrl
    /\ ">Redirecting to " \in Range(response.Content)

-----------------------------------------------------------------------------
(* Errors raised in a mounted App                                           *)

\* an error handler, custom or default, of App a ran for the request
RenderedBy(a) ==
    \E i \in DOMAIN invoked :
        invoked[i].kind \in {"errorHandler", "defaultErrorHandler"} /\ invoked[i].app = a

\* C28: an error arising inside a mounted child App (route not found, method
\* not allowed, deliberate abort or unexpected failure) is recovered and
\* rendered inside the child using the child's own error-handler table; the
\* parent receives a finished Response and returns it as it is, so the
\* parent's error handlers are never applied to errors raised within the
\* child.
C28_ChildErrorsStayInChild ==
    Delegated(PatMount, "sub") =>
        /\ ~RenderedBy("main")
        /\ escaped = NoPanic
        /\ RenderedBy("sub") => response = WriteResponse(ChildAlone(PatMount, "sub").resp)

=============================================================================
